---------------------------- MODULE Spec2Model ----------------------------
(***************************************************************************)
(* Model of the recipe / meal-plan / reminder bot.                         *)
(*                                                                         *)
(*   - utils.scale_ingredients            (recipe scaling)                 *)
(*   - database.get_shopping_list         (plan aggregation)               *)
(*   - states.plan_* / send_reminder_job,                                  *)
(*     handlers.schedule_existing_reminders (reminder lifecycle)           *)
(*   - database.add_dish, update_dish, import_dishes, delete_dish,         *)
(*     replace_dish_details, set_dish_tags, delete_meal_plan and the       *)
(*     referential actions of the schema    (store operations)             *)
(*                                                                         *)
(* Numbers.  Python floats are modelled as exact rationals <<n, d>> in     *)
(* lowest terms with d > 0, so "equal within floating-point tolerance" is  *)
(* read as equality of the exact values.                                   *)
(* Nullable values.  None is <<>> and a value v is <<v>>; a dict key that  *)
(* is absent and a key holding None are not told apart (the code reads     *)
(* them with .get(), which does not tell them apart either).               *)
(* Strings that the code trims or lower-cases are sequences of pieces, a   *)
(* blank or a word, so that strip() and lower() are computed, not assumed. *)
(* Time is counted in half seconds.                                        *)
(***************************************************************************)
EXTENDS Integers, Sequences, FiniteSets, Bags, TLC

VARIABLES
    \* ---- recipe scaling (utils.scale_ingredients and its caller)
    scale_in,        \* the caller's arguments: ingredients, base_servings, new_servings
    scale_orig,      \* history: the ingredient list as it was before the call
    scale_out,       \* the list scale_ingredients returned
    scale_back,      \* the list returned by scaling scale_out back
    scale_pc,        \* "start" -> "scaled" -> "restored"
    \* ---- persistent store (database.py: the SQLite file menu.db)
    db,              \* the tables, each a function from row id to row, and the
                     \* AUTOINCREMENT counters (sqlite_sequence)
    \* ---- plan aggregation (database.get_shopping_list)
    shopping,        \* the last call: its arguments and the dict it returned
    \* ---- reminders (states.plan_set_reminder_time, states.send_reminder_job,
    \*      handlers.schedule_existing_reminders)
    now,             \* datetime.now(), in half seconds since today 00:00
    up,              \* the bot process is running
    job_queue,       \* application.job_queue: the jobs of this process, each
                     \* with the position of its callback
    conversations,   \* plan_handler: the dialog state of each user (in memory)
    user_data,       \* context.user_data["plan"] of each user (in memory)
    task,            \* the plan_set_reminder_time call in flight, if any
    chat,            \* the notifications that reached the chats
    history,         \* what the crashes interrupted (not program state)
    \* ---- store operations (database.py)
    call,            \* the last operation called: arguments, outcome and the
                     \* store it started from
    sessions,        \* the add_dish calls of two sessions, each with the
                     \* position of its worker thread
    \* ---- dialogs (states.py: the ConversationHandlers)
    dialog           \* one chat: the state of the dialog it is in and its
                     \* context.user_data (in memory)

scaleVars == <<scale_in, scale_orig, scale_out, scale_back, scale_pc>>

remVars == <<now, up, job_queue, conversations, user_data, task, chat, history>>

storeVars == <<call, sessions, dialog>>

vars == <<scaleVars, db, shopping, remVars, storeVars>>

(***************************************************************************)
(* Bounds of the model.                                                    *)
(***************************************************************************)
MaxIngredients == 2      \* ingredient lines in one list
MaxServings    == 3      \* serving counts range over -1..MaxServings and 1/2
MaxPlans       == 2      \* meal-plan entries in the store
MaxCrashes     == 1      \* crashes of the bot process
MaxLate        == 3      \* half seconds the clock runs past the reminder time
MaxDishIds     == 2      \* recipes ever added to the store
MaxRowIds      == 2      \* ingredient lines, and tags, ever written
MaxReminders   == 2      \* reminder rows ever written by the store operations
MaxFailedReplies == 1    \* replies of the reminder-time step that fail
MaxJobs        == 3      \* jobs in the queue of one process
MaxLog         == 3      \* rows of the action log written by the dialogs of a run
MaxDialogs     == 2      \* dialogs begun in a run
MaxHeldRows    == 10      \* rows ever written to the store the sessions share

(***************************************************************************)
(* Nullable values and exact arithmetic.                                   *)
(***************************************************************************)
None == <<>>
Some(v) == <<v>>
IsNone(x) == x = <<>>
Val(x) == x[1]

Abs(n) == IF n < 0 THEN -n ELSE n

RECURSIVE GCD(_, _)
GCD(a, b) == IF b = 0 THEN a ELSE GCD(b, a % b)

\* the rational n/d (d # 0) in lowest terms with a positive denominator
Rat(n, d) ==
    LET g == GCD(Abs(n), Abs(d))
        s == IF d < 0 THEN -1 ELSE 1
    IN  <<(s * n) \div g, (s * d) \div g>>

Int2Rat(n) == <<n, 1>>
RMul(a, b) == Rat(a[1] * b[1], a[2] * b[2])
RDiv(a, b) == Rat(a[1] * b[2], a[2] * b[1])
RAdd(a, b) == Rat(a[1] * b[2] + b[1] * a[2], a[2] * b[2])
\* the float that is not a number: it is not zero, not below and not above
\* any number
NaN == <<0, 0>>
RIsZero(a) == a[2] # 0 /\ a[1] = 0
RLeqZero(a) == a[2] # 0 /\ a[1] <= 0
RZero == <<0, 1>>
ROne == <<1, 1>>

\* Python's "x or 0" / "x or 1" on a nullable number: None and 0 are falsy
OrElse(x, dflt) == IF IsNone(x) \/ RIsZero(Val(x)) THEN dflt ELSE Val(x)

MACROS == <<"calories", "protein", "fat", "carbs">>

(***************************************************************************)
(* utils.scale_ingredients                                                 *)
(***************************************************************************)
\* ScaleItem without the "is not None" tests: a null value is scaled as 0
ScaleItem_NullAsZero(ingredient, ratio) ==
    LET Scaled(key) == Some(RMul(OrElse(ingredient[key], RZero), ratio))
    IN  [ingredient  |-> ingredient,
         scaled_item |-> [ingredient EXCEPT !.quantity = Scaled("quantity"),
                                            !.calories = Scaled("calories"),
                                            !.protein  = Scaled("protein"),
                                            !.fat      = Scaled("fat"),
                                            !.carbs    = Scaled("carbs")]]

\* one pass of the loop body: scaled_item = dict(ingredient) is a copy, the
\* assignments go to the copy; returns the copy and the caller's dict
ScaleItem(ingredient, ratio) ==
    LET scaled_item == ingredient
        Scaled(key) == IF ~IsNone(ingredient[key])
                       THEN Some(RMul(OrElse(ingredient[key], RZero), ratio))
                       ELSE scaled_item[key]
    IN  [ingredient  |-> ingredient,
         scaled_item |-> [scaled_item EXCEPT !.quantity = Scaled("quantity"),
                                             !.calories = Scaled("calories"),
                                             !.protein  = Scaled("protein"),
                                             !.fat      = Scaled("fat"),
                                             !.carbs    = Scaled("carbs")]]

\* ScaleRatio with floor division (new_servings // base_servings)
ScaleRatio_FloorDiv(base_servings, new_servings) ==
    IF RLeqZero(base_servings) THEN ROne
    ELSE LET q == RDiv(new_servings, base_servings) IN Int2Rat(q[1] \div q[2])

ScaleRatio(base_servings, new_servings) ==
    IF RLeqZero(base_servings) THEN ROne ELSE RDiv(new_servings, base_servings)

\* returns the new list ("scaled") and the argument list as the call leaves it
scale_ingredients(ingredients, base_servings, new_servings) ==
    LET ratio == ScaleRatio(base_servings, new_servings)
        pass  == [i \in 1..Len(ingredients) |-> ScaleItem(ingredients[i], ratio)]
    IN  [scaled      |-> [i \in 1..Len(ingredients) |-> pass[i].scaled_item],
         ingredients |-> [i \in 1..Len(ingredients) |-> pass[i].ingredient]]

(***************************************************************************)
(* Inputs of the scaling specification.                                    *)
(***************************************************************************)
ServingValues == {Int2Rat(k) : k \in -1..MaxServings} \cup {Rat(1, 2)}

QuantityValues == {None, Some(Int2Rat(4)), Some(Rat(1, 2))}

\* the macro columns of a line: all null, or calories 50, protein 0, fat null, carbs 3/2
MacroProfiles ==
    { [calories |-> None, protein |-> None, fat |-> None, carbs |-> None],
      [calories |-> Some(Int2Rat(50)), protein |-> Some(RZero),
       fat |-> None, carbs |-> Some(Rat(3, 2))] }

Line(name, unit, quantity, m) ==
    [name |-> name, unit |-> unit, quantity |-> quantity,
     calories |-> m.calories, protein |-> m.protein, fat |-> m.fat, carbs |-> m.carbs]

ScaleLines ==
    { Line(nu[1], nu[2], q, m) :
        nu \in {<<"carrot", Some("pcs")>>, <<"water", None>>},
        q \in QuantityValues, m \in MacroProfiles }

SeqsUpTo(S, n) == UNION { [1..k -> S] : k \in 0..n }

(***************************************************************************)
(* Specification SpecScale: scale_ingredients applied to bounded inputs,   *)
(* then applied to its own result with the serving counts swapped.         *)
(***************************************************************************)
ScaleInit ==
    /\ scale_pc = "start"
    /\ \E ingredients \in SeqsUpTo(ScaleLines, MaxIngredients),
          base_servings \in ServingValues, new_servings \in ServingValues :
          /\ scale_in = [ingredients |-> ingredients,
                         base_servings |-> base_servings,
                         new_servings |-> new_servings]
          /\ scale_orig = ingredients
    /\ scale_out = <<>>
    /\ scale_back = <<>>

\* scaled = scale_ingredients(ingredients, base_servings, new_servings)
ScaleCall ==
    /\ scale_pc = "start"
    /\ LET r == scale_ingredients(scale_in.ingredients, scale_in.base_servings,
                                  scale_in.new_servings)
       IN  /\ scale_out' = r.scaled
           /\ scale_in' = [scale_in EXCEPT !.ingredients = r.ingredients]
    /\ scale_pc' = "scaled"
    /\ UNCHANGED <<scale_orig, scale_back, db, shopping, remVars, storeVars>>

\* back = scale_ingredients(scaled, new_servings, base_servings)
ScaleBackCall ==
    /\ scale_pc = "scaled"
    /\ LET r == scale_ingredients(scale_out, scale_in.new_servings,
                                  scale_in.base_servings)
       IN  /\ scale_back' = r.scaled
           /\ scale_out' = r.ingredients
    /\ scale_pc' = "restored"
    /\ UNCHANGED <<scale_in, scale_orig, db, shopping, remVars, storeVars>>

\* utils.compute_macros(ingredients) with ratio 1.0: the totals of the macro
\* columns, a null counting for nothing
RECURSIVE compute_macros(_, _)
compute_macros(ingredients, i) ==
    IF i > Len(ingredients) THEN [key \in {"calories", "protein", "fat", "carbs"} |-> RZero]
    ELSE LET rest == compute_macros(ingredients, i + 1)
         IN  [key \in DOMAIN rest |->
                 IF IsNone(ingredients[i][key]) THEN rest[key]
                 ELSE RAdd(Val(ingredients[i][key]), rest[key])]

\* utils.format_scaled_ingredients: what the message is written from (the
\* base serving count it names, the scaled lines, their macro totals)
format_scaled_ingredients(dish, new_servings) ==
    LET base_servings == OrElse(dish.servings, ROne)
        scaled == scale_ingredients(dish.ingredients_list, base_servings,
                                    new_servings).scaled
    IN  [base_servings |-> base_servings, scaled |-> scaled,
         macros |-> compute_macros(scaled, 1)]

\* states.scale_receive answering a positive serving count for a recipe
\* whose stored serving count is base_servings:
\* reply_text(format_scaled_ingredients(dish, servings))
FormatScaledCall ==
    /\ scale_pc = "start"
    /\ scale_in.new_servings[1] > 0
    /\ scale_out' = format_scaled_ingredients(
                        [servings |-> Some(scale_in.base_servings),
                         ingredients_list |-> scale_in.ingredients],
                        scale_in.new_servings)
    /\ scale_pc' = "formatted"
    /\ UNCHANGED <<scale_in, scale_orig, scale_back, db, shopping, remVars, storeVars>>

ScaleNext == ScaleCall \/ ScaleBackCall \/ FormatScaledCall


(***************************************************************************)
(* Text.  A string is a sequence of tokens: " " is a blank, every other    *)
(* token is a word in a fixed casing.  CODE_POINT_ORDER lists the tokens   *)
(* in the order Python and SQLite (BINARY collation) compare them.         *)
(***************************************************************************)
\* "Cyr:Borshch" and "Cyr:borshch" stand for the Cyrillic word of the dish,
\* U+0411 U+043E U+0440 U+0449 and U+0431 U+043E U+0440 U+0449: the same
\* word but for the case of its first letter, no letter of it in ASCII
CODE_POINT_ORDER ==
    <<" ", "Pie", "Soup", "Sugar", "carrot", "salt", "soup", "sugar",
      "Cyr:Borshch", "Cyr:borshch">>

Ord(tok) == CHOOSE i \in 1..Len(CODE_POINT_ORDER) : CODE_POINT_ORDER[i] = tok

\* str.lower() on one token
LowerToken(tok) ==
    CASE tok = "Sugar" -> "sugar"
      [] tok = "Soup"  -> "soup"
      [] tok = "Pie"   -> "pie"
      [] tok = "Yes"   -> "yes"
      [] tok = "Cyr:Borshch" -> "Cyr:borshch"
      [] OTHER         -> tok

\* str.lower()
lower(text) == [i \in 1..Len(text) |-> LowerToken(text[i])]

RECURSIVE lstrip(_)
lstrip(text) ==
    IF text # <<>> /\ Head(text) = " " THEN lstrip(Tail(text)) ELSE text

RECURSIVE rstrip(_)
rstrip(text) ==
    IF text # <<>> /\ text[Len(text)] = " "
    THEN rstrip(SubSeq(text, 1, Len(text) - 1)) ELSE text

\* str.strip()
strip(text) == rstrip(lstrip(text))

\* a < b for sequences of integers, lexicographically
LexLess(a, b) ==
    \E k \in 1..(Len(a) + 1) :
        /\ \A i \in 1..(k - 1) : i <= Len(b) /\ a[i] = b[i]
        /\ \/ k = Len(a) + 1 /\ Len(b) >= k
           \/ k <= Len(a) /\ k <= Len(b) /\ a[k] < b[k]

TextLess(a, b) ==
    LexLess([i \in 1..Len(a) |-> Ord(a[i])], [i \in 1..Len(b) |-> Ord(b[i])])

\* the elements of the finite set S in increasing order of the strict total order Less
SortBy(S, Less(_, _)) ==
    [i \in 1..Cardinality(S) |->
        CHOOSE x \in S : Cardinality({y \in S : Less(y, x)}) = i - 1]

(***************************************************************************)
(* The store.  Every table is a function from the ids of its rows to the   *)
(* rows; seq holds the AUTOINCREMENT counters, so an id is never reused.   *)
(***************************************************************************)
TABLES == {"dishes", "dish_ingredients", "dish_tags", "meal_plans",
           "reminders", "user_actions"}

NoRows == [id \in {} |-> <<>>]

EmptyDb ==
    [dishes |-> NoRows, dish_ingredients |-> NoRows, dish_tags |-> NoRows,
     meal_plans |-> NoRows, reminders |-> NoRows, user_actions |-> NoRows,
     seq |-> [t \in TABLES |-> 0]]

\* INSERT INTO a table declared without AUTOINCREMENT: the row gets the
\* largest id in the table plus one, so the id of a deleted row comes back
Insert_RowidReused(d, table, row) ==
    LET id == IF DOMAIN d[table] = {} THEN 1
              ELSE (CHOOSE m \in DOMAIN d[table] :
                       \A k \in DOMAIN d[table] : k <= m) + 1
    IN  [d EXCEPT ![table] = (id :> row) @@ d[table],
                  !.seq[table] = id]

\* INSERT INTO table: the row gets the next id of the table's counter
Insert(d, table, row) ==
    LET id == d.seq[table] + 1
    IN  [d EXCEPT ![table] = (id :> row) @@ d[table],
                  !.seq[table] = id]

LastRowId(d, table) == d.seq[table]

\* DELETE FROM table WHERE id IN ids (no referential action applied)
Without(rows, ids) == [id \in (DOMAIN rows) \ ids |-> rows[id]]

\* SQLite's LOWER(): folds the ASCII letters only
SqlLowerToken(tok) ==
    CASE tok = "Sugar" -> "sugar"
      [] tok = "Soup"  -> "soup"
      [] tok = "Pie"   -> "pie"
      [] tok = "Yes"   -> "yes"
      [] OTHER         -> tok

SqlLower(text) == [i \in 1..Len(text) |-> SqlLowerToken(text[i])]

\* UNIQUE(dish_id, name, unit): a NULL unit never equals another NULL
IngredientConflict(d, dish_id, name, unit) ==
    \E id \in DOMAIN d.dish_ingredients :
        /\ d.dish_ingredients[id].dish_id = dish_id
        /\ d.dish_ingredients[id].name = name
        /\ ~IsNone(unit)
        /\ d.dish_ingredients[id].unit = unit

\* the loop "for ingredient in ingredients" of add_dish, from line i on;
\* yields the store, or "IntegrityError" when an INSERT is refused
RECURSIVE InsertIngredients(_, _, _, _)
InsertIngredients(d, dish_id, ingredients, i) ==
    IF i > Len(ingredients) THEN [error |-> "", db |-> d]
    ELSE LET ingredient == ingredients[i] IN
         IF ingredient.name = <<>>
         THEN InsertIngredients(d, dish_id, ingredients, i + 1)
         ELSE IF IngredientConflict(d, dish_id, ingredient.name, ingredient.unit)
         THEN [error |-> "IntegrityError", db |-> d]
         ELSE InsertIngredients(
                  Insert(d, "dish_ingredients",
                         [dish_id |-> dish_id, name |-> ingredient.name,
                          quantity |-> ingredient.quantity, unit |-> ingredient.unit,
                          calories |-> ingredient.calories,
                          protein |-> ingredient.protein,
                          fat |-> ingredient.fat, carbs |-> ingredient.carbs]),
                  dish_id, ingredients, i + 1)

\* the loop with "clean_tag = tag.strip()", the tag's case kept
RECURSIVE InsertTags_CaseKept(_, _, _, _)
InsertTags_CaseKept(d, dish_id, tags, i) ==
    IF i > Len(tags) THEN d
    ELSE LET clean_tag == strip(tags[i])
             present == \E id \in DOMAIN d.dish_tags :
                            /\ d.dish_tags[id].dish_id = dish_id
                            /\ d.dish_tags[id].tag = clean_tag
         IN  IF clean_tag = <<>> \/ present
             THEN InsertTags_CaseKept(d, dish_id, tags, i + 1)
             ELSE InsertTags_CaseKept(Insert(d, "dish_tags",
                                    [dish_id |-> dish_id, tag |-> clean_tag]),
                             dish_id, tags, i + 1)

\* the loop "for tag in tags": INSERT OR IGNORE of the cleaned, non-empty tags
RECURSIVE InsertTags(_, _, _, _)
InsertTags(d, dish_id, tags, i) ==
    IF i > Len(tags) THEN d
    ELSE LET clean_tag == lower(strip(tags[i]))
             present == \E id \in DOMAIN d.dish_tags :
                            /\ d.dish_tags[id].dish_id = dish_id
                            /\ d.dish_tags[id].tag = clean_tag
         IN  IF clean_tag = <<>> \/ present
             THEN InsertTags(d, dish_id, tags, i + 1)
             ELSE InsertTags(Insert(d, "dish_tags",
                                    [dish_id |-> dish_id, tag |-> clean_tag]),
                             dish_id, tags, i + 1)

\* CREATE UNIQUE INDEX idx_dishes_name ON dishes(LOWER(name)): the name is
\* taken by another row
NameTaken(d, dish_id, name) ==
    \E id \in DOMAIN d.dishes :
        id # dish_id /\ SqlLower(d.dishes[id].name) = SqlLower(name)

\* a float bound to a statement's parameter: SQLite stores NaN as NULL
Bound(v) == IF v = Some(NaN) THEN None ELSE v

\* the writes of add_dish on a connection in autocommit mode: what was
\* written before the statement that failed stays written
InsertDish_Autocommit(d, name, dish_data, ingredients, tags) ==
    LET failed(e) == [error |-> e, db |-> d, dish_id |-> 0]
    IN  IF NameTaken(d, 0, name) THEN failed("IntegrityError")
        ELSE LET servings == Bound(Some(OrElse(dish_data.servings, ROne)))
                 d1 == Insert(d, "dishes", [name |-> name, servings |-> servings])
                 dish_id == LastRowId(d1, "dishes")
                 r2 == InsertIngredients(d1, dish_id, ingredients, 1)
             IN  IF r2.error # "" THEN [error |-> r2.error, db |-> r2.db, dish_id |-> 0]
                 ELSE [error |-> "", db |-> InsertTags(r2.db, dish_id, tags, 1),
                       dish_id |-> dish_id]

\* the writes of add_dish, after its SELECT found no row of that name: the
\* row of dishes, the ingredient lines and the tags, in one transaction
InsertDish(d, name, dish_data, ingredients, tags) ==
    LET failed(e) == [error |-> e, db |-> d, dish_id |-> 0]
    IN  IF NameTaken(d, 0, name) THEN failed("IntegrityError")
        ELSE LET servings == Bound(Some(OrElse(dish_data.servings, ROne)))
                 d1 == Insert(d, "dishes", [name |-> name, servings |-> servings])
                 dish_id == LastRowId(d1, "dishes")
                 r2 == InsertIngredients(d1, dish_id, ingredients, 1)
             IN  IF r2.error # "" THEN failed(r2.error)
                 ELSE [error |-> "", db |-> InsertTags(r2.db, dish_id, tags, 1),
                       dish_id |-> dish_id]

\* SELECT id FROM dishes WHERE LOWER(name) = LOWER(?)
NameFound(d, name) ==
    \E id \in DOMAIN d.dishes : SqlLower(d.dishes[id].name) = SqlLower(name)

\* database.add_dish: [error, db, dish_id].  An exception leaves the
\* connection uncommitted, so the store is the one the call started from.
add_dish(d, dish_data, ingredients, tags) ==
    LET name == strip(dish_data.name)
        failed(e) == [error |-> e, db |-> d, dish_id |-> 0]
    IN  IF name = <<>> THEN failed("ValueError")
        ELSE IF NameFound(d, name) THEN failed("ValueError")
        ELSE InsertDish(d, name, dish_data, ingredients, tags)

\* create_meal_plan on a connection that leaves the foreign keys off
create_meal_plan_NoForeignKey(d, user_id, chat_id, dish_id, plan_date, meal_type, servings, notes) ==
    LET d1 == Insert(d, "meal_plans",
                     [user_id |-> user_id, chat_id |-> chat_id,
                      dish_id |-> dish_id, plan_date |-> plan_date,
                      meal_type |-> meal_type, servings |-> servings,
                      notes |-> notes])
    IN  [error |-> "", db |-> d1, plan_id |-> LastRowId(d1, "meal_plans")]

\* database.create_meal_plan: [db, plan_id]; the FOREIGN KEY on dish_id
\* refuses a plan for a dish that is not there
create_meal_plan(d, user_id, chat_id, dish_id, plan_date, meal_type, servings, notes) ==
    IF dish_id \notin DOMAIN d.dishes
    THEN [error |-> "IntegrityError", db |-> d, plan_id |-> 0]
    ELSE LET d1 == Insert(d, "meal_plans",
                          [user_id |-> user_id, chat_id |-> chat_id,
                           dish_id |-> dish_id, plan_date |-> plan_date,
                           meal_type |-> meal_type, servings |-> servings,
                           notes |-> notes])
         IN  [error |-> "", db |-> d1, plan_id |-> LastRowId(d1, "meal_plans")]

\* FOREIGN KEY(dish_id) REFERENCES dishes(id) of user_actions: a row that
\* names a dish which is not there is refused (sqlite3.IntegrityError)
ActionRefused(d, dish_id) ==
    ~IsNone(dish_id) /\ Val(dish_id) \notin DOMAIN d.dishes

\* database.log_action: one more row of the append-only action log; the
\* payload column is NULL for an empty payload.  A refused INSERT raises
\* before the commit and the store stays as it was.
log_action(d, user_id, dish_id, action, payload) ==
    IF ActionRefused(d, dish_id) THEN d
    ELSE Insert(d, "user_actions",
                [user_id |-> user_id, dish_id |-> dish_id, action |-> action,
                 payload |-> payload])

(***************************************************************************)
(* database.get_shopping_list                                              *)
(***************************************************************************)
IngredientsOf(d, dish_id) ==
    {i \in DOMAIN d.dish_ingredients : d.dish_ingredients[i].dish_id = dish_id}

\* the WHERE clause without "mp.user_id = ?"
PlansInRange_AnyUser(d, user_id, start_date, end_date) ==
    {p \in DOMAIN d.meal_plans :
        /\ d.meal_plans[p].dish_id \in DOMAIN d.dishes
        /\ start_date <= d.meal_plans[p].plan_date
        /\ d.meal_plans[p].plan_date <= end_date}

\* WHERE mp.user_id = ? AND mp.plan_date BETWEEN ? AND ?  (JOIN dishes).
\* plan_date is an ISO date; dates are day numbers, compared as the ISO
\* strings compare.
PlansInRange(d, user_id, start_date, end_date) ==
    {p \in DOMAIN d.meal_plans :
        /\ d.meal_plans[p].dish_id \in DOMAIN d.dishes
        /\ d.meal_plans[p].user_id = user_id
        /\ start_date <= d.meal_plans[p].plan_date
        /\ d.meal_plans[p].plan_date <= end_date}

NullIngredient ==
    [name |-> None, quantity |-> None, unit |-> None,
     calories |-> None, protein |-> None, fat |-> None, carbs |-> None]

\* one row of the SELECT: plan p joined with ingredient line i (0: the
\* LEFT JOIN found no line, the ingredient columns are NULL)
ShoppingRow(d, p, i) ==
    LET mp == d.meal_plans[p]
        dish == d.dishes[mp.dish_id]
        di == IF i = 0 THEN NullIngredient
              ELSE [NullIngredient EXCEPT
                      !.name = Some(d.dish_ingredients[i].name),
                      !.quantity = d.dish_ingredients[i].quantity,
                      !.unit = d.dish_ingredients[i].unit,
                      !.calories = d.dish_ingredients[i].calories,
                      !.protein = d.dish_ingredients[i].protein,
                      !.fat = d.dish_ingredients[i].fat,
                      !.carbs = d.dish_ingredients[i].carbs]
    IN  [plan_id |-> p, line_id |-> i,
         plan_date |-> mp.plan_date, meal_type |-> mp.meal_type,
         planned_servings |-> mp.servings,
         dish_id |-> mp.dish_id, dish_name |-> dish.name,
         base_servings |-> dish.servings,
         ingredient_name |-> di.name, quantity |-> di.quantity, unit |-> di.unit,
         calories |-> di.calories, protein |-> di.protein,
         fat |-> di.fat, carbs |-> di.carbs]

\* ORDER BY mp.plan_date, d.name; rows that tie come in the order of their
\* ids (SQL leaves the order of ties open)
RowLess(a, b) ==
    \/ a.plan_date < b.plan_date
    \/ /\ a.plan_date = b.plan_date
       /\ \/ TextLess(a.dish_name, b.dish_name)
          \/ /\ a.dish_name = b.dish_name
             /\ \/ a.plan_id < b.plan_id
                \/ a.plan_id = b.plan_id /\ a.line_id < b.line_id

\* the rows of an inner join: an entry without ingredient lines is lost
ShoppingRows_InnerJoin(d, user_id, start_date, end_date) ==
    LET plans == PlansInRange(d, user_id, start_date, end_date)
        joined ==
            {ShoppingRow(d, p, i) : p \in plans, i \in DOMAIN d.dish_ingredients}
    IN  SortBy({r \in joined : d.dish_ingredients[r.line_id].dish_id = r.dish_id},
               RowLess)

ShoppingRows(d, user_id, start_date, end_date) ==
    LET plans == PlansInRange(d, user_id, start_date, end_date)
        joined ==
            {ShoppingRow(d, p, i) : p \in plans, i \in DOMAIN d.dish_ingredients}
        matched == {r \in joined :
                       d.dish_ingredients[r.line_id].dish_id = r.dish_id}
        unmatched == {ShoppingRow(d, p, 0) :
                        p \in {q \in plans :
                                 IngredientsOf(d, d.meal_plans[q].dish_id) = {}}}
    IN  SortBy(matched \cup unmatched, RowLess)

\* ingredient_name = (row["ingredient_name"] or "").strip()
RowIngredientName(row) ==
    strip(IF IsNone(row.ingredient_name) THEN <<>> ELSE Val(row.ingredient_name))

\* the key with the unit left out
ShoppingKey_NameOnly(ingredient_name, unit) == <<lower(ingredient_name), None>>

\* key = (ingredient_name.lower(), row["unit"])
ShoppingKey(ingredient_name, unit) == <<lower(ingredient_name), unit>>

\* the ratio computed the other way round
RowRatio_Inverted(row) ==
    RDiv(OrElse(row.base_servings, ROne), OrElse(row.planned_servings, ROne))

\* base_servings = row["base_servings"] or 1
\* ratio = (row["planned_servings"] or 1) / base_servings
RowRatio(row) ==
    RDiv(OrElse(row.planned_servings, ROne), OrElse(row.base_servings, ROne))

\* position of key in the dict, 0 when absent
KeyIndex(aggregated, key) ==
    IF \E k \in 1..Len(aggregated) : aggregated[k].key = key
    THEN CHOOSE k \in 1..Len(aggregated) : aggregated[k].key = key
    ELSE 0

\* the body of "for row in rows" from the key on: setdefault, then the +=
\* lines.  from_rows is history: the (plan, line) rows added into the entry.
AddRow(aggregated, row) ==
    LET ingredient_name == RowIngredientName(row)
        ratio == RowRatio(row)
        quantity == RMul(OrElse(row.quantity, RZero), ratio)
        key == ShoppingKey(ingredient_name, row.unit)
        fresh == [key |-> key, name |-> ingredient_name, unit |-> row.unit,
                  quantity |-> RZero, calories |-> RZero, protein |-> RZero,
                  fat |-> RZero, carbs |-> RZero, from_rows |-> {}]
        agg == IF KeyIndex(aggregated, key) = 0
               THEN Append(aggregated, fresh) ELSE aggregated
        k == KeyIndex(agg, key)
        entry == agg[k]
        Plus(field) == IF ~IsNone(row[field])
                       THEN RAdd(entry[field], RMul(OrElse(row[field], RZero), ratio))
                       ELSE entry[field]
    IN  [agg EXCEPT ![k] =
            [entry EXCEPT !.quantity = RAdd(entry.quantity, quantity),
                          !.calories = Plus("calories"),
                          !.protein = Plus("protein"),
                          !.fat = Plus("fat"),
                          !.carbs = Plus("carbs"),
                          !.from_rows = @ \cup {<<row.plan_id, row.line_id>>}]]

PlanSummary(row) ==
    [plan_id |-> row.plan_id, plan_date |-> row.plan_date,
     meal_type |-> row.meal_type, dish_id |-> row.dish_id,
     dish_name |-> row.dish_name, planned_servings |-> row.planned_servings,
     base_servings |-> row.base_servings]

\* "for row in rows" from row i on; acc = [aggregated, plans]
RECURSIVE ShoppingLoop(_, _, _)
ShoppingLoop(rows, i, acc) ==
    IF i > Len(rows) THEN acc
    ELSE LET row == rows[i]
             plans == IF \E k \in 1..Len(acc.plans) : acc.plans[k].plan_id = row.plan_id
                      THEN acc.plans
                      ELSE Append(acc.plans, PlanSummary(row))
         IN  IF RowIngredientName(row) = <<>>
             THEN ShoppingLoop(rows, i + 1, [acc EXCEPT !.plans = plans])
             ELSE ShoppingLoop(rows, i + 1,
                               [aggregated |-> AddRow(acc.aggregated, row),
                                plans |-> plans])

\* sorted(aggregated.values(), key=lambda item: item["name"].lower()): stable
SortedItems(aggregated) ==
    LET Before(a, b) ==
            \/ TextLess(lower(aggregated[a].name), lower(aggregated[b].name))
            \/ lower(aggregated[a].name) = lower(aggregated[b].name) /\ a < b
        order == SortBy(1..Len(aggregated), Before)
    IN  [k \in 1..Len(aggregated) |-> aggregated[order[k]]]

get_shopping_list(d, user_id, start_date, end_date) ==
    LET rows == ShoppingRows(d, user_id, start_date, end_date)
        acc == ShoppingLoop(rows, 1, [aggregated |-> <<>>, plans |-> <<>>])
    IN  [items |-> SortedItems(acc.aggregated), plans |-> acc.plans]

(***************************************************************************)
(* utils.parse_ingredient_input on the parts of "name; quantity; unit;     *)
(* calories; protein; fat; carbs": every part is stripped, an empty name   *)
(* is refused, an empty part leaves its key out.  parts.name and           *)
(* parts.unit are texts, the numeric parts are what parse_float returned.  *)
(***************************************************************************)
parse_ingredient_input(parts) ==
    IF strip(parts.name) = <<>> THEN [error |-> "ValueError", ingredient |-> NullIngredient]
    ELSE [error |-> "",
          ingredient |->
              [name |-> strip(parts.name),
               quantity |-> parts.quantity,
               unit |-> IF strip(parts.unit) = <<>> THEN None ELSE Some(strip(parts.unit)),
               calories |-> parts.calories, protein |-> parts.protein,
               fat |-> parts.fat, carbs |-> parts.carbs]]

(***************************************************************************)
(* Inputs of the aggregation specification.                                *)
(***************************************************************************)
Users == {"u1", "u2"}
ChatOf(user_id) == IF user_id = "u1" THEN 1 ELSE 2

\* utils.MEAL_TYPES (transliterated)
MEAL_TYPES == <<"Zavtrak", "Obed", "Uzhin", "Perekus">>

Parts(name, quantity, unit, calories) ==
    [name |-> name, quantity |-> quantity, unit |-> unit, calories |-> calories,
     protein |-> None, fat |-> None, carbs |-> None]

\* the ingredient messages typed for one recipe
RecipeInputs ==
    { <<>>,
      << Parts(<<"carrot">>, Some(Int2Rat(4)), <<"pcs">>, None) >>,
      << Parts(<<" ", "Sugar">>, Some(Int2Rat(4)), <<"g">>, Some(Int2Rat(50))),
         Parts(<<"salt">>, None, <<>>, None) >>,
      << Parts(<<"sugar">>, Some(Int2Rat(4)), <<"kg">>, None),
         Parts(<<"sugar", " ">>, Some(Rat(1, 2)), <<"g">>, None),
         Parts(<<"salt">>, Some(Int2Rat(4)), <<" ">>, None) >> }

\* the name and serving count typed for a recipe
DishInputs ==
    { [user_id |-> "u1", name |-> <<"Soup">>, servings |-> Some(Int2Rat(2))],
      [user_id |-> "u2", name |-> <<"Pie", " ">>, servings |-> Some(Int2Rat(1))] }

PlanDates == {1, 2}

\* what the plan dialog collected: the user, the date, the meal and the
\* serving count typed (None: the servings step was skipped)
PlanInputs ==
    { [user_id |-> "u1", plan_date |-> 1, meal_type |-> MEAL_TYPES[2],
       typed |-> Some(Int2Rat(3))],
      [user_id |-> "u1", plan_date |-> 1, meal_type |-> MEAL_TYPES[2], typed |-> None],
      [user_id |-> "u1", plan_date |-> 2, meal_type |-> MEAL_TYPES[3],
       typed |-> Some(Int2Rat(3))],
      [user_id |-> "u2", plan_date |-> 1, meal_type |-> MEAL_TYPES[1], typed |-> None] }

ParsedIngredients(inputs) ==
    [i \in 1..Len(inputs) |-> parse_ingredient_input(inputs[i]).ingredient]

NoCall ==
    [done |-> FALSE, user_id |-> "", start_date |-> 0, end_date |-> 0,
     result |-> [items |-> <<>>, plans |-> <<>>]]

(***************************************************************************)
(* Specification SpecShop: recipes are saved, entries are planned and the  *)
(* shopping list is computed for a user and a date range.                  *)
(***************************************************************************)
ShopInit ==
    /\ db = EmptyDb
    /\ shopping = NoCall

\* a run of SpecShop builds a store and ends with one view of the list
Viewed ==
    \E id \in DOMAIN db.user_actions :
        db.user_actions[id].action = "shopping_viewed"

\* states.add_dish_tags: the add-dish dialog saves the collected recipe
AddDish ==
    /\ ~shopping.done /\ ~Viewed
    /\ \E dish_data \in DishInputs, inputs \in RecipeInputs :
          LET r == add_dish(db, dish_data, ParsedIngredients(inputs), <<>>)
          IN  /\ r.error = ""
              /\ db' = log_action(r.db, dish_data.user_id, Some(r.dish_id),
                                  "dish_added", Some([name |-> dish_data.name]))
    /\ UNCHANGED <<shopping, scaleVars, remVars, storeVars>>

\* states.plan_set_notes: the plan dialog writes the entry; servings is the
\* number typed at the servings step or, when that was skipped, the
\* recipe's serving count
CreatePlan ==
    /\ ~shopping.done /\ ~Viewed
    /\ Cardinality(DOMAIN db.meal_plans) < MaxPlans
    /\ \E plan_data \in PlanInputs, dish_id \in DOMAIN db.dishes :
          LET servings == IF IsNone(plan_data.typed) THEN db.dishes[dish_id].servings
                          ELSE plan_data.typed
              r == create_meal_plan(db, plan_data.user_id, ChatOf(plan_data.user_id),
                                    dish_id, plan_data.plan_date, plan_data.meal_type,
                                    servings, None)
          IN  db' = log_action(r.db, plan_data.user_id, Some(dish_id),
                               "plan_created", Some([plan_id |-> r.plan_id]))
    /\ UNCHANGED <<shopping, scaleVars, remVars, storeVars>>

\* result = await database.get_shopping_list(user_id, start_date, end_date)
ShoppingList ==
    /\ ~shopping.done
    /\ ~Viewed
    /\ \E user_id \in Users, start_date \in PlanDates, end_date \in PlanDates :
          /\ start_date <= end_date
          /\ shopping' = [done |-> TRUE, user_id |-> user_id,
                          start_date |-> start_date, end_date |-> end_date,
                          result |-> get_shopping_list(db, user_id, start_date, end_date)]
    /\ UNCHANGED <<db, scaleVars, remVars, storeVars>>

\* the list is shown and the view is logged
ShoppingReturn ==
    /\ shopping.done
    /\ shopping' = NoCall
    /\ db' = log_action(db, shopping.user_id, None, "shopping_viewed",
                        Some([items |-> Len(shopping.result.items)]))
    /\ UNCHANGED <<scaleVars, remVars, storeVars>>

ShopNext == AddDish \/ CreatePlan \/ ShoppingList \/ ShoppingReturn

(***************************************************************************)
(* Reminders: time.  Instants and durations are counted in half seconds;   *)
(* date 1 is today and instant 0 is today 00:00.                           *)
(***************************************************************************)
SECOND == 2

DayStart(plan_date) == (plan_date - 1) * 24 * 60 * 60 * SECOND

\* utils.parse_time_input: the time of day of a message "HH:MM", or None
parse_time_input(text) ==
    LET normalized == strip(text)
    IN  IF normalized = <<"00:01">> THEN Some(60 * SECOND) ELSE None

\* datetime.isoformat and datetime.fromisoformat: the text of an instant and
\* back; a text that is not one raises ValueError
isoformat(t) == <<"iso", t>>

fromisoformat(text) ==
    IF Len(text) = 2 /\ text[1] = "iso"
    THEN [error |-> "", value |-> text[2]]
    ELSE [error |-> "ValueError", value |-> 0]

\* int(remind_dt.timestamp())
timestamp(t) == t \div SECOND

Max(a, b) == IF a >= b THEN a ELSE b

\* the instants the clock of the model stops at: the start, half a minute
\* later, and the half seconds around the reminder time 00:01
TimePoints == {0, 30 * SECOND} \cup ((60 * SECOND - 1)..(60 * SECOND + MaxLate))

(***************************************************************************)
(* Reminders: the store.                                                   *)
(***************************************************************************)
\* database.add_reminder: [error, db, reminder_id]; the FOREIGN KEYs refuse
\* a reminder for a dish or a plan entry that is not there
add_reminder(d, user_id, chat_id, remind_at, message, job_name, dish_id, plan_id) ==
    IF \/ (~IsNone(dish_id) /\ Val(dish_id) \notin DOMAIN d.dishes)
       \/ (~IsNone(plan_id) /\ Val(plan_id) \notin DOMAIN d.meal_plans)
    THEN [error |-> "IntegrityError", db |-> d, reminder_id |-> 0]
    ELSE LET d1 == Insert(d, "reminders",
                          [user_id |-> user_id, chat_id |-> chat_id,
                           dish_id |-> dish_id, plan_id |-> plan_id,
                           remind_at |-> remind_at, message |-> message,
                           job_name |-> job_name])
         IN  [error |-> "", db |-> d1, reminder_id |-> LastRowId(d1, "reminders")]

\* database.get_pending_reminders: every row, no filter, each with its id
get_pending_reminders_Limit1(d) ==
    LET ids == {id \in DOMAIN d.reminders : \A y \in DOMAIN d.reminders : id <= y}
    IN  [i \in 1..Cardinality(ids) |->
            LET id == CHOOSE x \in ids : TRUE
            IN  [id |-> id] @@ d.reminders[id]]

get_pending_reminders(d) ==
    LET ids == DOMAIN d.reminders
    IN  [i \in 1..Cardinality(ids) |->
            LET id == CHOOSE x \in ids : Cardinality({y \in ids : y < x}) = i - 1
            IN  [id |-> id] @@ d.reminders[id]]

\* database.remove_reminder: DELETE FROM reminders WHERE id = ?
remove_reminder(d, reminder_id) ==
    [d EXCEPT !.reminders = Without(d.reminders, {reminder_id})]

(***************************************************************************)
(* Reminders: the job queue.  A job is a record: its name, its delay       *)
(* (when) and the instant it was armed at, its data dict, and the position *)
(* of its callback send_reminder_job:                                      *)
(*   "armed" -> "sent" -> "removed" -> "done", or "armed" -> "failed"      *)
(* (send_message raised), or "removed" -> "raised" (log_action raised).    *)
(* local is the reminder_id the callback read from                         *)
(* the data when it started; armed_by tells which code armed the job.      *)
(***************************************************************************)
\* job_queue.run_once(send_reminder_job, when, name=..., data=...)
run_once(when, name, data, at, armed_by) ==
    [name |-> name, when |-> when, at |-> at, data |-> data,
     pc |-> "armed", local |-> None, armed_by |-> armed_by]

Due(job) == job.at + job.when

\* states.plan_set_reminder_time: the test that refuses a time and the delay
TimePassed_Strict(remind_dt, t) == remind_dt < t

TimePassed(remind_dt, t) == remind_dt <= t

CreationDelay(remind_dt, t) == remind_dt - t

\* handlers.schedule_existing_reminders: when = max(delta, timedelta(seconds=1))
RecoveryDelay_NoFloor(remind_at, t) == remind_at - t

RecoveryDelay(remind_at, t) == Max(remind_at - t, SECOND)

\* the loop "for reminder in reminders", from row i on: the jobs armed
RECURSIVE RecoveryJobs(_, _, _)
RecoveryJobs(reminders, i, t) ==
    IF i > Len(reminders) THEN <<>>
    ELSE LET reminder == reminders[i]
             remind_at == fromisoformat(reminder.remind_at)
         IN  IF remind_at.error # "" THEN RecoveryJobs(reminders, i + 1, t)
             ELSE << run_once(RecoveryDelay(remind_at.value, t), reminder.job_name,
                              [chat_id |-> reminder.chat_id,
                               message |-> reminder.message,
                               reminder_time |-> reminder.remind_at,
                               reminder_id |-> Some(reminder.id),
                               plan_id |-> reminder.plan_id,
                               dish_id |-> reminder.dish_id,
                               user_id |-> reminder.user_id],
                              t, "recovery") >>
                  \o RecoveryJobs(reminders, i + 1, t)

\* the recovery pass run twice at a start
schedule_existing_reminders_Twice(d, t) ==
    RecoveryJobs(get_pending_reminders(d), 1, t)
        \o RecoveryJobs(get_pending_reminders(d), 1, t)

\* handlers.schedule_existing_reminders: the job queue after the pass
schedule_existing_reminders(d, t) ==
    RecoveryJobs(get_pending_reminders(d), 1, t)

\* the text of the notification and the name of the job
ReminderMessage(dish, meal_type, plan_date) ==
    <<"Napominanie", dish.name, meal_type, plan_date>>

JobName(plan_id, remind_dt) == <<"reminder", plan_id, timestamp(remind_dt)>>

(***************************************************************************)
(* Reminders: inputs and the state after a start.                          *)
(***************************************************************************)
\* utils.YES_ANSWERS and utils.NO_ANSWERS (the Latin members; "da", "net"
\* stand for the Cyrillic ones)
YES_ANSWERS == {<<"da">>, <<"yes">>, <<"y">>}
NO_ANSWERS == {<<"net">>, <<"no">>}

\* the answers typed at the question "set a reminder?"
Answers == {<<"Yes", " ">>, <<"no">>, <<"later">>}

\* the messages typed at the question for the time
TimeInputs == {<<"00:01", " ">>, <<"soon">>}

\* what the plan dialog collected before the notes step: in the earlier run
\* (the entry of user u2) and in this one (the entries of user u1)
ReminderPlanInputs == {p \in PlanInputs : IsNone(p.typed)}

NewPlanInputs == {p \in ReminderPlanInputs : p.user_id = "u1"}

\* the store when the reminder specification starts: an earlier run of the
\* process saved a recipe, planned it for today and set a reminder for 00:01
StoreWithReminder ==
    LET dish_data == CHOOSE x \in DishInputs : x.name = <<"Soup">>
        plan_data == CHOOSE x \in ReminderPlanInputs : x.user_id = "u2"
        user_id == plan_data.user_id
        r1 == add_dish(EmptyDb, dish_data, <<>>, <<>>)
        d1 == log_action(r1.db, dish_data.user_id, Some(r1.dish_id), "dish_added",
                         Some([name |-> dish_data.name]))
        dish == [id |-> r1.dish_id] @@ d1.dishes[r1.dish_id]
        r2 == create_meal_plan(d1, user_id, ChatOf(user_id), dish.id,
                               plan_data.plan_date, plan_data.meal_type,
                               dish.servings, None)
        d2 == log_action(r2.db, user_id, Some(dish.id), "plan_created",
                         Some([plan_id |-> r2.plan_id]))
        remind_dt == DayStart(plan_data.plan_date)
                         + Val(parse_time_input(<<"00:01">>))
        r3 == add_reminder(d2, user_id, ChatOf(user_id), isoformat(remind_dt),
                           ReminderMessage(dish, plan_data.meal_type,
                                           plan_data.plan_date),
                           JobName(r2.plan_id, remind_dt),
                           Some(dish.id), Some(r2.plan_id))
    IN  log_action(r3.db, user_id, Some(dish.id), "reminder_scheduled",
                   Some([reminder_id |-> r3.reminder_id]))

NoTask ==
    [pc |-> "idle", user_id |-> "", job |-> 0, remind_dt |-> 0,
     job_name |-> <<>>, message |-> <<>>, reminder_id |-> 0]

\* history: the crashes so far, the jobs the crashes found armed (owed) and
\* those of them whose row was committed, the jobs that fired when their
\* row was no longer in the store (orphans), the replies that failed, and
\* the ids of the reminders whose row was deleted in a lifetime of the
\* process that has ended (gone)
NoHistory ==
    [crashes |-> 0, owed |-> {}, committed |-> {}, orphans |-> {},
     replies_failed |-> 0, gone |-> {}]

\* nothing of the reminder part has happened
RemIdle ==
    /\ now = 0
    /\ up = TRUE
    /\ job_queue = <<>>
    /\ conversations = [u \in Users |-> "END"]
    /\ user_data = [u \in Users |-> None]
    /\ task = NoTask
    /\ chat = EmptyBag
    /\ history = NoHistory

\* the process has just started on that store: post_init has run the
\* recovery pass
RemInit ==
    /\ db = StoreWithReminder
    /\ now = 0
    /\ up = TRUE
    /\ job_queue = schedule_existing_reminders(db, now)
    /\ conversations = [u \in Users |-> "END"]
    /\ user_data = [u \in Users |-> None]
    /\ task = NoTask
    /\ chat = EmptyBag
    /\ history = NoHistory

(***************************************************************************)
(* Reminders: the plan dialog.  Updates are handled one at a time, so at   *)
(* most one handler is in flight; the jobs of the queue run on the same    *)
(* event loop and take their steps wherever a handler awaits.              *)
(***************************************************************************)
\* states.plan_set_notes, with the steps of the dialog that lead to it: the
\* entry is written and the user is asked whether to set a reminder
plan_set_notes ==
    /\ up /\ task.pc = "idle"
    /\ db.seq["meal_plans"] < MaxPlans
    /\ \E plan_data \in NewPlanInputs, dish_id \in DOMAIN db.dishes :
          LET user_id == plan_data.user_id
              dish == [id |-> dish_id] @@ db.dishes[dish_id]
              servings == IF IsNone(plan_data.typed) THEN dish.servings
                          ELSE plan_data.typed
              r == create_meal_plan(db, user_id, ChatOf(user_id), dish_id,
                                    plan_data.plan_date, plan_data.meal_type,
                                    servings, None)
          IN  /\ conversations[user_id] = "END"
              /\ r.error = ""
              /\ db' = log_action(r.db, user_id, Some(dish_id), "plan_created",
                                  Some([plan_id |-> r.plan_id]))
              /\ user_data' = [user_data EXCEPT ![user_id] =
                                  Some([dish |-> dish, date |-> plan_data.plan_date,
                                        meal_type |-> plan_data.meal_type,
                                        plan_id |-> r.plan_id])]
              /\ conversations' = [conversations EXCEPT
                                      ![user_id] = "PLAN_CONFIRM_REMINDER"]
    /\ UNCHANGED <<now, up, job_queue, task, chat, history, shopping, scaleVars, storeVars>>

\* states.plan_confirm_reminder
plan_confirm_reminder ==
    /\ up /\ task.pc = "idle"
    /\ \E user_id \in Users, text \in Answers :
          LET answer == lower(strip(text))
          IN  /\ conversations[user_id] = "PLAN_CONFIRM_REMINDER"
              /\ IF answer \in NO_ANSWERS
                 THEN /\ user_data' = [user_data EXCEPT ![user_id] = None]
                      /\ conversations' = [conversations EXCEPT ![user_id] = "END"]
                 ELSE IF answer \notin YES_ANSWERS
                 THEN UNCHANGED <<user_data, conversations>>
                 ELSE /\ conversations' = [conversations EXCEPT
                                              ![user_id] = "PLAN_SET_REMINDER_TIME"]
                      /\ UNCHANGED user_data
    /\ UNCHANGED <<now, up, db, job_queue, task, chat, history, shopping, scaleVars, storeVars>>

\* states.plan_set_reminder_time, up to job_queue.run_once: the job is armed
\* with reminder_id None, and the call goes on to await database.add_reminder
plan_set_reminder_time ==
    /\ up /\ task.pc = "idle"
    /\ Len(job_queue) < MaxJobs
    /\ \E user_id \in Users, text \in TimeInputs :
          LET plan_data == user_data[user_id]
              reminder_time == parse_time_input(text)
              remind_dt == DayStart(Val(plan_data).date) + Val(reminder_time)
              dish == Val(plan_data).dish
              plan_id == Val(plan_data).plan_id
              job_name == JobName(plan_id, remind_dt)
              message == ReminderMessage(dish, Val(plan_data).meal_type,
                                         Val(plan_data).date)
              job == run_once(CreationDelay(remind_dt, now), job_name,
                              [chat_id |-> ChatOf(user_id), message |-> message,
                               reminder_time |-> isoformat(remind_dt),
                               reminder_id |-> None, plan_id |-> Some(plan_id),
                               dish_id |-> Some(dish.id), user_id |-> user_id],
                              now, "creation")
          IN  /\ conversations[user_id] = "PLAN_SET_REMINDER_TIME"
              /\ IF IsNone(plan_data)
                 THEN /\ conversations' = [conversations EXCEPT ![user_id] = "END"]
                      /\ UNCHANGED <<job_queue, task>>
                 ELSE IF IsNone(reminder_time)
                 THEN UNCHANGED <<conversations, job_queue, task>>
                 ELSE IF TimePassed(remind_dt, now)
                 THEN UNCHANGED <<conversations, job_queue, task>>
                 ELSE /\ job_queue' = Append(job_queue, job)
                      /\ task' = [pc |-> "add_reminder", user_id |-> user_id,
                                  job |-> Len(job_queue) + 1,
                                  remind_dt |-> remind_dt, job_name |-> job_name,
                                  message |-> message, reminder_id |-> 0]
                      /\ UNCHANGED conversations
    /\ UNCHANGED <<now, up, db, user_data, chat, history, shopping, scaleVars, storeVars>>

\* reminder_id = await database.add_reminder(...): the row is committed
AddReminder ==
    /\ up /\ task.pc = "add_reminder"
    /\ LET plan_data == Val(user_data[task.user_id])
           r == add_reminder(db, task.user_id, ChatOf(task.user_id),
                             isoformat(task.remind_dt), task.message,
                             task.job_name, Some(plan_data.dish.id),
                             Some(plan_data.plan_id))
       IN  IF r.error # ""
           THEN /\ task' = NoTask
                /\ UNCHANGED db
           ELSE /\ db' = r.db
                /\ task' = [task EXCEPT !.pc = "set_id",
                                        !.reminder_id = r.reminder_id]
    /\ UNCHANGED <<now, up, job_queue, conversations, user_data, chat, history,
                   shopping, scaleVars, storeVars>>

\* the call resumes: job.data["reminder_id"] = reminder_id
SetReminderId ==
    /\ up /\ task.pc = "set_id"
    /\ job_queue' = [job_queue EXCEPT
                        ![task.job].data.reminder_id = Some(task.reminder_id)]
    /\ task' = [task EXCEPT !.pc = "log"]
    /\ UNCHANGED <<now, up, db, conversations, user_data, chat, history,
                   shopping, scaleVars, storeVars>>

\* await database.log_action(...), the reply, and the end of the dialog;
\* when the INSERT of the log is refused the handler ends there, with the
\* dialog where it was
FinishReminder ==
    /\ up /\ task.pc = "log"
    /\ LET dish_id == Some(Val(user_data[task.user_id]).dish.id)
       IN  /\ db' = log_action(db, task.user_id, dish_id, "reminder_scheduled",
                               Some([reminder_id |-> task.reminder_id]))
           /\ IF ActionRefused(db, dish_id)
              THEN UNCHANGED <<user_data, conversations>>
              ELSE /\ user_data' = [user_data EXCEPT ![task.user_id] = None]
                   /\ conversations' = [conversations EXCEPT
                                            ![task.user_id] = "END"]
    /\ task' = NoTask
    /\ UNCHANGED <<now, up, job_queue, chat, history, shopping, scaleVars, storeVars>>

\* the same step when reply_text raises (the chat cannot be reached): the
\* row and the log are committed, and the handler ends before it clears
\* user_data and before it returns the next state of the dialog
FinishReminderFails ==
    /\ up /\ task.pc = "log"
    /\ history.replies_failed < MaxFailedReplies
    /\ db' = log_action(db, task.user_id,
                        Some(Val(user_data[task.user_id]).dish.id),
                        "reminder_scheduled",
                        Some([reminder_id |-> task.reminder_id]))
    /\ task' = NoTask
    /\ history' = [history EXCEPT !.replies_failed = @ + 1]
    /\ UNCHANGED <<now, up, job_queue, conversations, user_data, chat,
                   shopping, scaleVars, storeVars>>

(***************************************************************************)
(* Reminders: the callback of a job, the clock, crash and restart.         *)
(***************************************************************************)
Notification(job) ==
    [chat_id |-> job.data.chat_id, text |-> job.data.message, job_name |-> job.name]

\* the job was given the id of its row, and the row is not in the store
RowGone(job) ==
    /\ ~IsNone(job.data.reminder_id)
    /\ Val(job.data.reminder_id) # 0
    /\ Val(job.data.reminder_id) \notin DOMAIN db.reminders

\* states.send_reminder_job, first part: the data of the job is read, and
\* the message is sent; send_message delivers it or raises
SendReminder ==
    /\ up
    /\ \E i \in DOMAIN job_queue, delivered \in BOOLEAN :
          LET job == job_queue[i]
          IN  /\ job.pc = "armed"
              /\ now >= Due(job)
              /\ job_queue' = [job_queue EXCEPT
                                  ![i].local = job.data.reminder_id,
                                  ![i].pc = IF delivered THEN "sent" ELSE "failed"]
              /\ chat' = IF delivered THEN chat (+) SetToBag({Notification(job)})
                         ELSE chat
              /\ history' = IF RowGone(job)
                             THEN [history EXCEPT !.orphans = @ \cup {job.name}]
                             ELSE history
    /\ UNCHANGED <<now, up, db, conversations, user_data, task,
                   shopping, scaleVars, storeVars>>

\* if reminder_id: await database.remove_reminder(reminder_id)
RemoveReminder ==
    /\ up
    /\ \E i \in DOMAIN job_queue :
          LET job == job_queue[i]
          IN  /\ job.pc = "sent"
              /\ db' = IF ~IsNone(job.local) /\ Val(job.local) # 0
                       THEN remove_reminder(db, Val(job.local))
                       ELSE db
              /\ job_queue' = [job_queue EXCEPT ![i].pc = "removed"]
    /\ UNCHANGED <<now, up, conversations, user_data, task, chat, history,
                   shopping, scaleVars, storeVars>>

\* await database.log_action(..., "reminder_sent", ...): the callback
\* returns, or the exception of a refused INSERT leaves it ("raised")
LogReminderSent ==
    /\ up
    /\ \E i \in DOMAIN job_queue :
          LET job == job_queue[i]
          IN  /\ job.pc = "removed"
              /\ db' = log_action(db, job.data.user_id, job.data.dish_id,
                                  "reminder_sent",
                                  Some([message |-> job.data.message]))
              /\ job_queue' = [job_queue EXCEPT
                                  ![i].pc = IF ActionRefused(db, job.data.dish_id)
                                            THEN "raised" ELSE "done"]
    /\ UNCHANGED <<now, up, conversations, user_data, task, chat, history,
                   shopping, scaleVars, storeVars>>

\* time passes, to the next instant of the model; the scheduler of a
\* running process starts the callback of a job at the instant it is due,
\* and a handler waits for the store less than a second at a time
NextInstant ==
    CHOOSE t \in TimePoints : t > now /\ \A t2 \in TimePoints : t2 > now => t <= t2

Tick ==
    /\ \E t \in TimePoints : t > now
    /\ up => \A i \in DOMAIN job_queue :
                 job_queue[i].pc = "armed" => now < Due(job_queue[i])
    /\ task.pc # "idle" => NextInstant - now < SECOND
    /\ now' = NextInstant
    /\ UNCHANGED <<up, db, job_queue, conversations, user_data, task, chat,
                   history, shopping, scaleVars, storeVars>>

\* the names of the jobs that are armed and have not fired
ArmedNames == {job_queue[i].name : i \in {k \in DOMAIN job_queue :
                                             job_queue[k].pc = "armed"}}

StoredNames == {db.reminders[id].job_name : id \in DOMAIN db.reminders}

\* the process dies: what it held in memory is gone, the store stays
Crash ==
    /\ up
    /\ history.crashes < MaxCrashes
    /\ up' = FALSE
    /\ job_queue' = <<>>
    /\ conversations' = [u \in Users |-> "END"]
    /\ user_data' = [u \in Users |-> None]
    /\ task' = NoTask
    /\ history' = [history EXCEPT
                       !.crashes = history.crashes + 1,
                       !.owed = history.owed \cup ArmedNames,
                       !.committed = history.committed
                                         \cup (ArmedNames \cap StoredNames),
                       !.orphans = {},
                       !.gone = (1..db.seq["reminders"]) \ DOMAIN db.reminders]
    /\ UNCHANGED <<now, db, chat, shopping, scaleVars, storeVars>>

\* bot.py starts again: post_init runs schedule_existing_reminders before
\* any update is handled
Restart ==
    /\ ~up
    /\ up' = TRUE
    /\ job_queue' = schedule_existing_reminders(db, now)
    /\ UNCHANGED <<now, db, conversations, user_data, task, chat, history,
                   shopping, scaleVars, storeVars>>

RemNext ==
    \/ plan_set_notes \/ plan_confirm_reminder \/ plan_set_reminder_time
    \/ AddReminder \/ SetReminderId \/ FinishReminder
    \/ SendReminder \/ RemoveReminder \/ LogReminderSent
    \/ Tick \/ Crash \/ Restart

\* the dialog and the jobs, with replies that may fail
RetryNext == RemNext \/ FinishReminderFails

(***************************************************************************)
(* The store: editing and deleting.  An operation yields a record: error   *)
(* (the exception raised, "" for none), result (the value returned) and db *)
(* (the store afterwards; the store of before when the operation raised,   *)
(* as nothing was committed).                                              *)
(***************************************************************************)
\* the rows of meal_plans go and the reminders stay, as without the
\* referential action
DeletePlans_KeepReminders(d, plan_ids) ==
    [d EXCEPT !.meal_plans = Without(d.meal_plans, plan_ids)]

\* ON DELETE CASCADE of reminders.plan_id: the rows of meal_plans with
\* these ids go, and the reminders that reference them
DeletePlans(d, plan_ids) ==
    [d EXCEPT
        !.meal_plans = Without(d.meal_plans, plan_ids),
        !.reminders =
            Without(d.reminders,
                    {id \in DOMAIN d.reminders :
                        /\ ~IsNone(d.reminders[id].plan_id)
                        /\ Val(d.reminders[id].plan_id) \in plan_ids})]

\* ON DELETE CASCADE instead: the referring rows go with the recipe
NullDishReference_Cascade(rows, dish_id) ==
    [id \in {i \in DOMAIN rows : rows[i].dish_id # Some(dish_id)} |-> rows[id]]

\* the references are left dangling
NullDishReference_Keep(rows, dish_id) == rows

\* ON DELETE SET NULL of reminders.dish_id and of user_actions.dish_id
NullDishReference(rows, dish_id) ==
    [id \in DOMAIN rows |->
        IF rows[id].dish_id = Some(dish_id)
        THEN [rows[id] EXCEPT !.dish_id = None]
        ELSE rows[id]]

\* DELETE FROM dishes WHERE id = ?, with the referential actions of the
\* schema on the five tables that reference dishes
DeleteDishRow(d, dish_id) ==
    LET plan_ids == {id \in DOMAIN d.meal_plans : d.meal_plans[id].dish_id = dish_id}
        d1 == DeletePlans(d, plan_ids)
    IN  [d1 EXCEPT
            !.dishes = Without(d1.dishes, {dish_id}),
            !.dish_ingredients =
                Without(d1.dish_ingredients,
                        {id \in DOMAIN d1.dish_ingredients :
                            d1.dish_ingredients[id].dish_id = dish_id}),
            !.dish_tags =
                Without(d1.dish_tags,
                        {id \in DOMAIN d1.dish_tags :
                            d1.dish_tags[id].dish_id = dish_id}),
            !.reminders = NullDishReference(d1.reminders, dish_id),
            !.user_actions = NullDishReference(d1.user_actions, dish_id)]

\* database.delete_dish
delete_dish(d, dish_id) ==
    LET affected == dish_id \in DOMAIN d.dishes
    IN  [error |-> "", result |-> affected,
         db |-> IF affected THEN DeleteDishRow(d, dish_id) ELSE d]

\* delete_meal_plan without "AND user_id = ?"
delete_meal_plan_AnyUser(d, plan_id, user_id) ==
    LET affected == plan_id \in DOMAIN d.meal_plans
    IN  [error |-> "", result |-> affected,
         db |-> IF affected THEN DeletePlans(d, {plan_id}) ELSE d]

\* database.delete_meal_plan: DELETE ... WHERE id = ? AND user_id = ?
delete_meal_plan(d, plan_id, user_id) ==
    LET affected == /\ plan_id \in DOMAIN d.meal_plans
                    /\ d.meal_plans[plan_id].user_id = user_id
    IN  [error |-> "", result |-> affected,
         db |-> IF affected THEN DeletePlans(d, {plan_id}) ELSE d]

\* database.remove_reminder_by_job: DELETE FROM reminders WHERE job_name = ?
remove_reminder_by_job(d, job_name) ==
    [d EXCEPT !.reminders =
        Without(d.reminders,
                {id \in DOMAIN d.reminders : d.reminders[id].job_name = job_name})]

\* the columns of dishes that update_dish accepts, of those the model keeps
valid_fields == {"name", "servings"}

\* database.update_dish; updates is a function from field names to values
\* (a nullable value: None is Python's None)
update_dish(d, dish_id, updates) ==
    LET sets == (DOMAIN updates) \cap valid_fields
        row == [f \in {"name", "servings"} |->
                   IF f \in sets
                   THEN (IF f = "name" THEN Val(updates[f]) ELSE updates[f])
                   ELSE d.dishes[dish_id][f]]
    IN  IF sets = {} THEN [error |-> "", result |-> FALSE, db |-> d]
        ELSE IF dish_id \notin DOMAIN d.dishes
        THEN [error |-> "", result |-> FALSE, db |-> d]
        ELSE IF "name" \in sets /\ IsNone(updates.name)
        THEN [error |-> "IntegrityError", result |-> FALSE, db |-> d]
        ELSE IF "name" \in sets /\ NameTaken(d, dish_id, Val(updates.name))
        THEN [error |-> "IntegrityError", result |-> FALSE, db |-> d]
        ELSE [error |-> "", result |-> TRUE,
              db |-> [d EXCEPT !.dishes[dish_id] = row]]

\* DELETE FROM dish_tags WHERE dish_id = ?
ClearTags(d, dish_id) ==
    [d EXCEPT !.dish_tags =
        Without(d.dish_tags,
                {id \in DOMAIN d.dish_tags : d.dish_tags[id].dish_id = dish_id})]

\* set_dish_tags without the SELECT that looks the recipe up
set_dish_tags_NoLookup(d, dish_id, tags) ==
    [error |-> "", result |-> TRUE,
     db |-> InsertTags(ClearTags(d, dish_id), dish_id, tags, 1)]

\* database.set_dish_tags
set_dish_tags(d, dish_id, tags) ==
    IF dish_id \notin DOMAIN d.dishes
    THEN [error |-> "", result |-> FALSE, db |-> d]
    ELSE [error |-> "", result |-> TRUE,
          db |-> InsertTags(ClearTags(d, dish_id), dish_id, tags, 1)]

\* replace_dish_details without its "DELETE FROM dish_ingredients": the
\* lines the recipe had stay beside the new ones
replace_dish_details_LinesKept(d, dish_id, ingredients, tags) ==
    IF dish_id \notin DOMAIN d.dishes
    THEN [error |-> "", result |-> FALSE, db |-> d]
    ELSE LET r2 == InsertIngredients(d, dish_id, ingredients, 1)
         IN  IF r2.error # "" THEN [error |-> r2.error, result |-> FALSE, db |-> d]
             ELSE [error |-> "", result |-> TRUE,
                   db |-> IF IsNone(tags) THEN r2.db
                          ELSE InsertTags(ClearTags(r2.db, dish_id), dish_id,
                                          Val(tags), 1)]

\* replace_dish_details on a connection in autocommit mode: what was
\* written before the statement that failed stays written
replace_dish_details_Autocommit(d, dish_id, ingredients, tags) ==
    IF dish_id \notin DOMAIN d.dishes
    THEN [error |-> "", result |-> FALSE, db |-> d]
    ELSE LET d1 == [d EXCEPT !.dish_ingredients =
                       Without(d.dish_ingredients,
                               {id \in DOMAIN d.dish_ingredients :
                                   d.dish_ingredients[id].dish_id = dish_id})]
             r2 == InsertIngredients(d1, dish_id, ingredients, 1)
         IN  IF r2.error # "" THEN [error |-> r2.error, result |-> FALSE, db |-> r2.db]
             ELSE [error |-> "", result |-> TRUE,
                   db |-> IF IsNone(tags) THEN r2.db
                          ELSE InsertTags(ClearTags(r2.db, dish_id), dish_id,
                                          Val(tags), 1)]

\* database.replace_dish_details; tags is None (left alone) or Some(list)
replace_dish_details(d, dish_id, ingredients, tags) ==
    IF dish_id \notin DOMAIN d.dishes
    THEN [error |-> "", result |-> FALSE, db |-> d]
    ELSE LET d1 == [d EXCEPT !.dish_ingredients =
                       Without(d.dish_ingredients,
                               {id \in DOMAIN d.dish_ingredients :
                                   d.dish_ingredients[id].dish_id = dish_id})]
             r2 == InsertIngredients(d1, dish_id, ingredients, 1)
         IN  IF r2.error # "" THEN [error |-> r2.error, result |-> FALSE, db |-> d]
             ELSE [error |-> "", result |-> TRUE,
                   db |-> IF IsNone(tags) THEN r2.db
                          ELSE InsertTags(ClearTags(r2.db, dish_id), dish_id,
                                          Val(tags), 1)]

\* database.get_dish_by_name: the id of a row with that name, or None
get_dish_by_name(d, name) ==
    LET found == {id \in DOMAIN d.dishes :
                     SqlLower(d.dishes[id].name) = SqlLower(strip(name))}
    IN  IF found = {} THEN None ELSE Some(CHOOSE id \in found : TRUE)

\* a cell of an imported table that holds a number is <<"num", value>>, and
\* float() reads the value back; an empty cell is <<>>
Numeral(value) == <<"num", value>>
Float(cell) == cell[2]

\* import_dishes, one chunk of the ingredients cell: its parts, split at "|"
\* and stripped, padded to seven
ImportEntry(chunk) ==
    LET parts == [k \in 1..7 |-> IF k <= Len(chunk)
                                 THEN (IF k \in {1, 3} THEN strip(chunk[k]) ELSE chunk[k])
                                 ELSE <<>>]
        number(k) == IF parts[k] = <<>> THEN None ELSE Some(Float(parts[k]))
    IN  [name |-> parts[1], quantity |-> number(2),
         unit |-> IF parts[3] = <<>> THEN None ELSE Some(parts[3]),
         calories |-> number(4), protein |-> number(5),
         fat |-> number(6), carbs |-> number(7)]

\* the ingredient entries of a row: the chunks whose first part is not empty
RECURSIVE ImportEntries(_, _)
ImportEntries(chunks, i) ==
    IF i > Len(chunks) THEN <<>>
    ELSE IF chunks[i] = <<>> \/ strip(chunks[i][1]) = <<>>
    THEN ImportEntries(chunks, i + 1)
    ELSE <<ImportEntry(chunks[i])>> \o ImportEntries(chunks, i + 1)

\* tag_list: the stripped, non-empty pieces of the tags cell
RECURSIVE ImportTags(_, _)
ImportTags(tags, i) ==
    IF i > Len(tags) THEN <<>>
    ELSE IF strip(tags[i]) = <<>> THEN ImportTags(tags, i + 1)
    ELSE <<strip(tags[i])>> \o ImportTags(tags, i + 1)

\* the loop "for row in rows" of import_dishes from row i on; a ValueError of
\* add_dish skips the row, any other exception ends the import with the
\* rows added so far kept
RECURSIVE ImportRows(_, _, _, _, _)
ImportRows(d, rows, i, added, skipped) ==
    IF i > Len(rows)
    THEN [error |-> "", result |-> [added |-> added, skipped |-> skipped], db |-> d]
    ELSE LET row == rows[i]
             name == strip(row.name)
         IN  IF name = <<>> THEN ImportRows(d, rows, i + 1, added, skipped)
             ELSE IF ~IsNone(get_dish_by_name(d, name))
             THEN ImportRows(d, rows, i + 1, added, Append(skipped, name))
             ELSE LET r == add_dish(d,
                                    [name |-> name,
                                     servings |-> IF row.servings = <<>>
                                                  THEN Some(ROne)
                                                  ELSE Some(Float(row.servings))],
                                    ImportEntries(row.ingredients, 1),
                                    ImportTags(row.tags, 1))
                  IN  IF r.error = ""
                      THEN ImportRows(r.db, rows, i + 1, added + 1, skipped)
                      ELSE IF r.error = "ValueError"
                      THEN ImportRows(d, rows, i + 1, added, Append(skipped, name))
                      ELSE [error |-> r.error,
                            result |-> [added |-> added, skipped |-> skipped],
                            db |-> d]

\* database.import_dishes
import_dishes(d, rows) == ImportRows(d, rows, 1, 0, <<>>)
(***************************************************************************)
(* The store operations, called one after another in any order.  call      *)
(* keeps the last call: the operation, its arguments, what it raised and   *)
(* returned, and the store it started from.                                *)
(***************************************************************************)
\* the names given to recipes
DishNames == {<<"Soup">>, <<"soup", " ">>, <<"Cyr:borshch">>, <<"Cyr:Borshch">>}

\* ingredient lists and tag lists given to the operations
LineInputs ==
    { <<>>,
      << Line(<<"carrot">>, Some(<<"pcs">>), Some(Int2Rat(4)), [m \in {"calories", "protein", "fat", "carbs"} |-> None]) >> }

TagInputs == { <<>>, << <<"Sugar", " ">> >> }

\* the ingredient lines and the tags typed for the recipe of a name
DetailsOf(name) ==
    IF name = <<"Soup">>
    THEN [ingredients |-> CHOOSE l \in LineInputs : l # <<>>,
          tags |-> CHOOSE t \in TagInputs : t # <<>>]
    ELSE [ingredients |-> <<>>, tags |-> <<>>]

\* the dicts of changes passed to update_dish: none, a new name, no name,
\* a new serving count, a column that is not one
UpdateInputs ==
    {<<>>, [name |-> Some(<<"soup">>)], [name |-> Some(<<"Cyr:Borshch">>)],
     [name |-> None], [servings |-> Some(Int2Rat(3))], [id |-> Some(Int2Rat(3))]}

\* the tables given to import_dishes
ImportRow(name, servings) ==
    [name |-> name, servings |-> servings,
     ingredients |-> IF servings = <<>> THEN <<>>
                     ELSE << <<<<"salt", " ">>, Numeral(Int2Rat(4))>>, <<<<" ">>>> >>,
     tags |-> IF servings = <<>> THEN <<>> ELSE << <<"Sugar">>, <<" ">> >>]

ImportInputs ==
    { << ImportRow(<<"Cyr:Borshch">>, <<>>),
         ImportRow(<<"Soup", " ">>, Numeral(Int2Rat(2))) >>,
      << ImportRow(<<" ">>, <<>>), ImportRow(<<"soup">>, Numeral(Int2Rat(2))) >> }

\* ids the callers pass: those of the rows in the store, and the next one,
\* which no row has
DishIds == (DOMAIN db.dishes) \cup {db.seq["dishes"] + 1}
PlanIds == (DOMAIN db.meal_plans) \cup {db.seq["meal_plans"] + 1}

NoStoreCall ==
    [op |-> "", id |-> 0, arg |-> <<>>, error |-> "", result |-> FALSE,
     before |-> EmptyDb]

Called(op, id, arg, r, before) ==
    [op |-> op, id |-> id, arg |-> arg, error |-> r.error, result |-> r.result,
     before |-> before]

StoreInit ==
    /\ db = EmptyDb
    /\ call = NoStoreCall

\* a store that holds a recipe, a plan entry of it and the reminder of
\* that entry
EditInit ==
    /\ db = StoreWithReminder
    /\ call = NoStoreCall

\* a store with two recipes, one of them with an ingredient line and a tag
StoreWithDishes ==
    LET soup == <<"Soup">>
        d1 == add_dish(EmptyDb, [name |-> soup, servings |-> Some(Int2Rat(2))],
                       DetailsOf(soup).ingredients, DetailsOf(soup).tags).db
    IN  add_dish(d1, [name |-> <<"Cyr:borshch">>, servings |-> Some(Int2Rat(2))],
                 <<>>, <<>>).db

PlanInit ==
    /\ db = StoreWithDishes
    /\ call = NoStoreCall

\* await database.add_dish(dish_data, ingredients, tags)
AddDishCall ==
    /\ db.seq["dishes"] < MaxDishIds
    /\ \E name \in DishNames :
          LET ingredients == DetailsOf(name).ingredients
              tags == DetailsOf(name).tags
              r == add_dish(db, [name |-> name, servings |-> Some(Int2Rat(2))],
                            ingredients, tags)
          IN  /\ db' = r.db
              /\ call' = Called("add_dish", r.dish_id, name,
                                [error |-> r.error, result |-> r.error = ""], db)
    /\ UNCHANGED <<sessions, dialog, shopping, scaleVars, remVars>>

\* await database.update_dish(dish_id, updates)
UpdateDishCall ==
    /\ \E dish_id \in DishIds,
          updates \in UpdateInputs :
          LET r == update_dish(db, dish_id, updates)
          IN  /\ db' = r.db
              /\ call' = Called("update_dish", dish_id, updates, r, db)
    /\ UNCHANGED <<sessions, dialog, shopping, scaleVars, remVars>>

\* await database.import_dishes(rows)
ImportDishesCall ==
    /\ db.seq["dishes"] < MaxDishIds - 1
    /\ \E rows \in ImportInputs :
          LET r == import_dishes(db, rows)
          IN  /\ db' = r.db
              /\ call' = Called("import_dishes", 0, rows, r, db)
    /\ UNCHANGED <<sessions, dialog, shopping, scaleVars, remVars>>

\* await database.replace_dish_details(dish_id, ingredients, tags=tags)
ReplaceDishDetailsCall ==
    /\ db.seq["dish_ingredients"] < MaxRowIds
    /\ db.seq["dish_tags"] < MaxRowIds
    /\ \E dish_id \in DishIds, ingredients \in LineInputs,
          tags \in {None} \cup {Some(t) : t \in TagInputs} :
          LET r == replace_dish_details(db, dish_id, ingredients, tags)
          IN  /\ db' = r.db
              /\ call' = Called("replace_dish_details", dish_id,
                                <<ingredients, tags>>, r, db)
    /\ UNCHANGED <<sessions, dialog, shopping, scaleVars, remVars>>

\* await database.set_dish_tags(dish_id, tags)
SetDishTagsCall ==
    /\ db.seq["dish_tags"] < MaxRowIds
    /\ \E dish_id \in DishIds, tags \in TagInputs :
          LET r == set_dish_tags(db, dish_id, tags)
          IN  /\ db' = r.db
              /\ call' = Called("set_dish_tags", dish_id, tags, r, db)
    /\ UNCHANGED <<sessions, dialog, shopping, scaleVars, remVars>>

\* await database.delete_dish(dish_id)
DeleteDishCall ==
    /\ \E dish_id \in DishIds :
          LET r == delete_dish(db, dish_id)
          IN  /\ db' = r.db
              /\ call' = Called("delete_dish", dish_id, <<>>, r, db)
    /\ UNCHANGED <<sessions, dialog, shopping, scaleVars, remVars>>

\* await database.create_meal_plan(...)
CreateMealPlanCall ==
    /\ db.seq["meal_plans"] < MaxPlans
    /\ \E user_id \in Users, dish_id \in DOMAIN db.dishes :
          LET r == create_meal_plan(db, user_id, ChatOf(user_id), dish_id, 1,
                                    MEAL_TYPES[1], db.dishes[dish_id].servings, None)
          IN  /\ db' = r.db
              /\ call' = Called("create_meal_plan", r.plan_id, user_id,
                                [error |-> r.error, result |-> r.error = ""], db)
    /\ UNCHANGED <<sessions, dialog, shopping, scaleVars, remVars>>

\* await database.add_reminder(...): for a plan entry and its recipe as the
\* plan dialog does, or for a recipe alone
AddReminderCall ==
    /\ db.seq["reminders"] < MaxReminders
    /\ \E dish_id \in DOMAIN db.dishes,
          plan_id \in {None} \cup {Some(p) : p \in DOMAIN db.meal_plans} :
          LET user_id == IF IsNone(plan_id) THEN "u1"
                         ELSE db.meal_plans[Val(plan_id)].user_id
              remind_dt == DayStart(1) + 60 * SECOND
              r == add_reminder(db, user_id, ChatOf(user_id), isoformat(remind_dt),
                                <<>>,
                                JobName(IF IsNone(plan_id) THEN 0 ELSE Val(plan_id),
                                        remind_dt),
                                Some(dish_id), plan_id)
          IN  /\ ~IsNone(plan_id) => db.meal_plans[Val(plan_id)].dish_id = dish_id
              /\ db' = r.db
              /\ call' = Called("add_reminder", r.reminder_id, <<dish_id, plan_id>>,
                                [error |-> r.error, result |-> r.error = ""], db)
    /\ UNCHANGED <<sessions, dialog, shopping, scaleVars, remVars>>

\* await database.delete_meal_plan(plan_id, user_id)
DeleteMealPlanCall ==
    /\ \E plan_id \in PlanIds, user_id \in Users :
          LET r == delete_meal_plan(db, plan_id, user_id)
          IN  /\ db' = r.db
              /\ call' = Called("delete_meal_plan", plan_id, user_id, r, db)
    /\ UNCHANGED <<sessions, dialog, shopping, scaleVars, remVars>>

\* the operations that add, rename and delete recipes
StoreNext ==
    \/ AddDishCall \/ UpdateDishCall \/ ImportDishesCall
    \/ ReplaceDishDetailsCall \/ DeleteDishCall

\* the operations that edit or delete what the store holds
EditNext ==
    \/ UpdateDishCall \/ ReplaceDishDetailsCall \/ SetDishTagsCall
    \/ DeleteDishCall \/ DeleteMealPlanCall

\* the operations on plan entries and reminders, and what they refer to
PlanNext ==
    \/ DeleteDishCall
    \/ CreateMealPlanCall \/ AddReminderCall \/ DeleteMealPlanCall
(***************************************************************************)
(* add_dish in two sessions at once.  Each call runs _insert in a worker   *)
(* thread on a connection of its own: the SELECT reads the committed       *)
(* store; the first INSERT opens the write transaction, of which SQLite    *)
(* allows one at a time, and its rows are in txn until the commit.  A      *)
(* session that finds the store locked waits, and gives up after the       *)
(* timeout of the connection (sqlite3.OperationalError).                   *)
(*   pc: "start" -> "checked" -> "inserted" -> "done", or -> "raised"      *)
(***************************************************************************)
Sessions == {"s1", "s2"}

Session(name, ingredients) ==
    [pc |-> "start", name |-> name, ingredients |-> ingredients, error |-> "",
     txn |-> EmptyDb]

NoSessions == [s \in Sessions |-> Session(<<>>, <<>>) ]

\* the stores the two calls may start from: empty, or with one recipe
RaceStores ==
    {EmptyDb,
     add_dish(EmptyDb, [name |-> <<"Soup">>, servings |-> Some(Int2Rat(2))],
              <<>>, <<>>).db}

\* call.before keeps the store the two calls started from
RaceInit ==
    /\ db \in RaceStores
    /\ sessions \in [Sessions -> {Session(n, i) : n \in DishNames \cup {<<" ">>},
                                                  i \in LineInputs}]
    /\ call = [NoStoreCall EXCEPT !.op = "race", !.before = db]

WriteLocked == \E s \in Sessions : sessions[s].pc = "inserted"

\* name = dish_data.get("name", "").strip(), and the SELECT of _insert
CheckName(s) ==
    /\ sessions[s].pc = "start"
    /\ LET name == strip(sessions[s].name)
       IN  sessions' = [sessions EXCEPT
               ![s].pc = IF name = <<>> \/ NameFound(db, name)
                         THEN "raised" ELSE "checked",
               ![s].error = IF name = <<>> \/ NameFound(db, name)
                            THEN "ValueError" ELSE ""]
    /\ UNCHANGED <<db, call, dialog, shopping, scaleVars, remVars>>

\* the INSERTs of _insert, in the write transaction of the session
InsertRows(s) ==
    /\ sessions[s].pc = "checked"
    /\ ~WriteLocked
    /\ LET r == InsertDish(db, strip(sessions[s].name),
                           [name |-> sessions[s].name,
                            servings |-> Some(Int2Rat(2))],
                           sessions[s].ingredients, <<>>)
       IN  sessions' = [sessions EXCEPT
               ![s].pc = IF r.error = "" THEN "inserted" ELSE "raised",
               ![s].error = r.error,
               ![s].txn = r.db]
    /\ UNCHANGED <<db, call, dialog, shopping, scaleVars, remVars>>

\* conn.commit()
Commit(s) ==
    /\ sessions[s].pc = "inserted"
    /\ db' = sessions[s].txn
    /\ sessions' = [sessions EXCEPT ![s].pc = "done", ![s].txn = EmptyDb]
    /\ UNCHANGED <<call, dialog, shopping, scaleVars, remVars>>

\* the store stayed locked for the whole timeout of the connection
LockTimeout(s) ==
    /\ sessions[s].pc = "checked"
    /\ WriteLocked
    /\ sessions' = [sessions EXCEPT ![s].pc = "raised",
                                    ![s].error = "OperationalError"]
    /\ UNCHANGED <<db, call, dialog, shopping, scaleVars, remVars>>

RaceNext ==
    \E s \in Sessions : CheckName(s) \/ InsertRows(s) \/ Commit(s) \/ LockTimeout(s)

(***************************************************************************)
(* Reminders whose row is deleted while the job is armed.                  *)
(***************************************************************************)
\* states.delete_confirm: the recipe is deleted with all that refers to it,
\* and the log of the deletion names the recipe that is gone
delete_confirm ==
    /\ up /\ task.pc = "idle"
    /\ \E user_id \in Users, dish_id \in DOMAIN db.dishes :
          db' = log_action(delete_dish(db, dish_id).db, user_id, Some(dish_id),
                           "dish_deleted", Some([name |-> db.dishes[dish_id].name]))
    /\ UNCHANGED <<remVars, shopping, scaleVars, storeVars>>

\* await database.delete_meal_plan(plan_id, user_id), by the user of the entry
CancelPlan ==
    /\ up /\ task.pc = "idle"
    /\ \E plan_id \in DOMAIN db.meal_plans :
          db' = delete_meal_plan(db, plan_id, db.meal_plans[plan_id].user_id).db
    /\ UNCHANGED <<remVars, shopping, scaleVars, storeVars>>

\* await database.remove_reminder(reminder_id): cancel by id
CancelById ==
    /\ up /\ task.pc = "idle"
    /\ \E reminder_id \in DOMAIN db.reminders :
          db' = remove_reminder(db, reminder_id)
    /\ UNCHANGED <<remVars, shopping, scaleVars, storeVars>>

\* await database.remove_reminder_by_job(job_name): cancel by job name
CancelByJob ==
    /\ up /\ task.pc = "idle"
    /\ \E job_name \in StoredNames :
          db' = remove_reminder_by_job(db, job_name)
    /\ UNCHANGED <<remVars, shopping, scaleVars, storeVars>>

\* the dialog and the jobs, with rows deleted under the armed jobs
FireNext ==
    \/ RemNext \/ delete_confirm \/ CancelPlan \/ CancelById \/ CancelByJob

\* reminders created, fired and cancelled one by one, over restarts: the
\* plan dialog up to the armed trigger, send_reminder_job up to the row's
\* deletion, and the two cancellations of a single reminder
GoneNext ==
    \/ plan_set_notes \/ plan_confirm_reminder \/ plan_set_reminder_time
    \/ AddReminder \/ SetReminderId \/ FinishReminder
    \/ SendReminder \/ RemoveReminder
    \/ Tick \/ Crash \/ Restart
    \/ CancelById \/ CancelByJob

(***************************************************************************)
(* The menu of a week: plan entries of several users on several days, and  *)
(* the recipes they refer to being edited while the entries exist.         *)
(***************************************************************************)
\* utils.MEAL_TYPES as SQLite's ORDER BY mp.meal_type puts them (by code
\* point: Ze, O, Pe, U)
MEAL_TYPE_ORDER == <<"Zavtrak", "Obed", "Perekus", "Uzhin">>

\* ORDER BY mp.plan_date, mp.meal_type; rows that tie come in the order of
\* their ids
PlanLess(a, b) ==
    LET ord(t) == CHOOSE i \in 1..Len(MEAL_TYPE_ORDER) : MEAL_TYPE_ORDER[i] = t
    IN  \/ a.plan_date < b.plan_date
        \/ /\ a.plan_date = b.plan_date
           /\ \/ ord(a.meal_type) < ord(b.meal_type)
              \/ ord(a.meal_type) = ord(b.meal_type) /\ a.id < b.id

\* database.get_meal_plans_in_range: the rows of
\* SELECT mp.id, mp.plan_date, mp.meal_type, mp.servings, mp.notes,
\*        d.id as dish_id, d.name, d.servings as base_servings
\* FROM meal_plans mp JOIN dishes d ON d.id = mp.dish_id
\* WHERE mp.user_id = ? AND mp.plan_date BETWEEN ? AND ?
get_meal_plans_in_range(d, user_id, start_date, end_date) ==
    SortBy({ [id |-> p, plan_date |-> d.meal_plans[p].plan_date,
              meal_type |-> d.meal_plans[p].meal_type,
              servings |-> d.meal_plans[p].servings,
              notes |-> d.meal_plans[p].notes,
              dish_id |-> d.meal_plans[p].dish_id,
              name |-> d.dishes[d.meal_plans[p].dish_id].name,
              base_servings |-> d.dishes[d.meal_plans[p].dish_id].servings]
             : p \in PlansInRange(d, user_id, start_date, end_date) },
           PlanLess)

\* the days of the menu, and the ranges a list is asked for
MenuDates == {1, 2, 3}
MenuRanges == {r \in MenuDates \X MenuDates : r[1] <= r[2]}

\* the plan entries written: who, which day, which meal, how many servings
\* (None: the recipe's serving count)
MenuPlanInputs ==
    { [user_id |-> "u1", plan_date |-> 2, meal_type |-> MEAL_TYPES[2],
       servings |-> Some(Int2Rat(3))],
      [user_id |-> "u1", plan_date |-> 3, meal_type |-> MEAL_TYPES[1],
       servings |-> None],
      [user_id |-> "u2", plan_date |-> 2, meal_type |-> MEAL_TYPES[3],
       servings |-> Some(Int2Rat(1))] }

\* the serving counts given to update_dish
MenuServings == {None, Some(RZero), Some(Int2Rat(3))}

\* the ingredient lines a recipe is given anew
MenuLines ==
    { <<>>,
      << Line(<<"salt">>, None, Some(Int2Rat(3)),
              [calories |-> Some(Int2Rat(6)), protein |-> None,
               fat |-> None, carbs |-> None]) >> }

\* a store with one recipe: two servings, one ingredient line
MenuStore ==
    add_dish(EmptyDb, [name |-> <<"Soup">>, servings |-> Some(Int2Rat(2))],
             DetailsOf(<<"Soup">>).ingredients, <<>>).db

MenuInit ==
    /\ db = MenuStore
    /\ call = NoStoreCall

\* await database.create_meal_plan(...)
PlanMealCall ==
    /\ db.seq["meal_plans"] < MaxPlans
    /\ \E plan \in MenuPlanInputs, dish_id \in DOMAIN db.dishes :
          LET servings == IF IsNone(plan.servings) THEN db.dishes[dish_id].servings
                          ELSE plan.servings
              r == create_meal_plan(db, plan.user_id, ChatOf(plan.user_id), dish_id,
                                    plan.plan_date, plan.meal_type, servings, None)
          IN  /\ db' = r.db
              /\ call' = Called("create_meal_plan", r.plan_id, plan,
                                [error |-> r.error, result |-> r.error = ""], db)
    /\ UNCHANGED <<sessions, dialog, shopping, scaleVars, remVars>>

\* await database.update_dish(dish_id, {"servings": value})
ServingsCall ==
    /\ \E dish_id \in DOMAIN db.dishes, value \in MenuServings :
          LET r == update_dish(db, dish_id, [servings |-> value])
          IN  /\ db' = r.db
              /\ call' = Called("update_dish", dish_id, value, r, db)
    /\ UNCHANGED <<sessions, dialog, shopping, scaleVars, remVars>>

\* await database.replace_dish_details(dish_id, ingredients)
DetailsCall ==
    /\ db.seq["dish_ingredients"] < MaxRowIds
    /\ \E dish_id \in DOMAIN db.dishes, ingredients \in MenuLines :
          LET r == replace_dish_details(db, dish_id, ingredients, None)
          IN  /\ db' = r.db
              /\ call' = Called("replace_dish_details", dish_id, ingredients, r, db)
    /\ UNCHANGED <<sessions, dialog, shopping, scaleVars, remVars>>

MenuNext == PlanMealCall \/ DeleteMealPlanCall \/ ServingsCall \/ DetailsCall

(***************************************************************************)
(* The dialogs of states.py, one handler per action.  dialog.state is the  *)
(* state the ConversationHandler of the chat is in ("END": no dialog) and  *)
(* dialog.user_data is context.user_data: a key that is absent is None, a  *)
(* key that is present is Some(value), and so for the keys of the dicts    *)
(* stored under them.  Updates are handled one at a time and the chat is   *)
(* in one dialog at a time.  A handler that raises leaves dialog.state as  *)
(* it was and keeps what it had done to user_data.                         *)
(***************************************************************************)
NoUserData ==
    [add_dish |-> None, details |-> None, edit_dish |-> None,
     delete_dish |-> None, plan |-> None, scale |-> None]

\* started counts the dialogs begun (not program state)
NoDialog == [state |-> "END", user_data |-> NoUserData, started |-> 0]

\* the user of the chat
DialogUser == "u1"

\* utils.parse_float on a message: the number typed, or None; float() reads
\* the word "nan" as the number that is not a number
parse_float(cell) ==
    IF cell # <<>> /\ cell[1] = "num" THEN Some(Float(cell))
    ELSE IF cell = <<"nan">> THEN Some(NaN)
    ELSE None

\* utils.parse_tags on a message given as its pieces between separators
parse_tags(pieces) == ImportTags(pieces, 1)

\* database.get_dish_by_id: the row with its tags (ORDER BY tag) and its
\* ingredient lines (ORDER BY name; lines that tie come in the order of
\* their ids)
get_dish_by_id(d, dish_id) ==
    IF dish_id \notin DOMAIN d.dishes THEN None
    ELSE LET tags == {d.dish_tags[t].tag :
                         t \in {x \in DOMAIN d.dish_tags : d.dish_tags[x].dish_id = dish_id}}
             Before(a, b) ==
                 \/ TextLess(d.dish_ingredients[a].name, d.dish_ingredients[b].name)
                 \/ d.dish_ingredients[a].name = d.dish_ingredients[b].name /\ a < b
             ids == SortBy(IngredientsOf(d, dish_id), Before)
             row(i) == d.dish_ingredients[i]
         IN  Some([id |-> dish_id, name |-> d.dishes[dish_id].name,
                   servings |-> d.dishes[dish_id].servings,
                   tags |-> SortBy(tags, TextLess),
                   ingredients_list |->
                       [k \in 1..Len(ids) |->
                           [name |-> row(ids[k]).name, quantity |-> row(ids[k]).quantity,
                            unit |-> row(ids[k]).unit, calories |-> row(ids[k]).calories,
                            protein |-> row(ids[k]).protein, fat |-> row(ids[k]).fat,
                            carbs |-> row(ids[k]).carbs]]])

\* get_dish_by_name followed by get_dish_by_id, as database.get_dish_by_name
\* returns the recipe
DishNamed(d, name) ==
    LET dish_id == get_dish_by_name(d, name)
    IN  IF IsNone(dish_id) THEN None ELSE get_dish_by_id(d, Val(dish_id))

\* ---- what the user types
\* at the question for a name
NameTexts == {<<"Pie", " ">>, <<" ">>, <<"soup">>}

\* at a question for a serving count
ServingCells == {Numeral(Int2Rat(2)), Numeral(RZero), Numeral(Int2Rat(-2)), <<"many">>}

\* at the question of the add-dish dialog for a serving count
AddServingCells == ServingCells \cup {<<"nan">>}

\* at the question for an ingredient: the word that ends the list, or
\* the parts of a line
IngredientMessages ==
    {[finish |-> TRUE, parts |-> Parts(<<>>, None, <<>>, None)]} \cup
    {[finish |-> FALSE, parts |-> p] :
        p \in {Parts(<<"salt">>, Some(Int2Rat(1)), <<" ">>, None),
               Parts(<<" ">>, None, <<>>, None)}}

\* at the question for tags: the skip button, or the pieces of a message
TagMessages ==
    {[skip |-> TRUE, pieces |-> <<>>],
     [skip |-> FALSE, pieces |-> << <<"Sugar", " ">>, <<" ">>, <<"sugar">> >>]}

\* the dialog goes to state s with user_data ud
Goto(s, ud) == dialog' = [dialog EXCEPT !.state = s, !.user_data = ud]

\* an entry point: a dialog begins in state s
Enter(s, ud) ==
    /\ dialog.state = "END"
    /\ dialog.started < MaxDialogs
    /\ dialog' = [state |-> s, user_data |-> ud, started |-> dialog.started + 1]

\* states.cancel, the fallback of every dialog
cancel ==
    /\ dialog.state # "END"
    /\ Goto("END", dialog.user_data)
    /\ UNCHANGED <<db, call, sessions, shopping, scaleVars, remVars>>

\* ---- the add-dish dialog
NewDishData == [name |-> <<>>, servings |-> None]

add_dish_entry ==
    /\ db.seq["dishes"] < MaxDishIds
    /\ Enter("ADD_NAME",
            [dialog.user_data EXCEPT
                !.add_dish = Some([data |-> NewDishData, ingredients |-> <<>>,
                                   tags |-> <<>>])])
    /\ UNCHANGED <<db, call, sessions, shopping, scaleVars, remVars>>

add_dish_name ==
    /\ dialog.state = "ADD_NAME"
    /\ \E text \in NameTexts :
          LET name == strip(text)
          IN  IF name = <<>> \/ ~IsNone(get_dish_by_name(db, name))
              THEN UNCHANGED dialog
              ELSE Goto("ADD_CATEGORY",
                        [dialog.user_data EXCEPT
                            !.add_dish = Some([Val(@) EXCEPT !.data.name = name])])
    /\ UNCHANGED <<db, call, sessions, shopping, scaleVars, remVars>>

\* the steps that store a column the store of the model does not hold
\* (add_dish_category, add_dish_cuisine, add_dish_prep_time,
\* add_dish_cook_time, add_dish_difficulty, add_dish_description,
\* add_dish_instructions): each goes to the next question
ADD_STEPS ==
    [ADD_CATEGORY |-> "ADD_CUISINE", ADD_CUISINE |-> "ADD_SERVINGS",
     ADD_PREP_TIME |-> "ADD_COOK_TIME", ADD_COOK_TIME |-> "ADD_DIFFICULTY",
     ADD_DIFFICULTY |-> "ADD_DESCRIPTION", ADD_DESCRIPTION |-> "ADD_INGREDIENTS",
     ADD_INSTRUCTIONS |-> "ADD_TAGS"]

add_dish_column ==
    /\ dialog.state \in DOMAIN ADD_STEPS
    /\ Goto(ADD_STEPS[dialog.state], dialog.user_data)
    /\ UNCHANGED <<db, call, sessions, shopping, scaleVars, remVars>>

add_dish_servings ==
    /\ dialog.state = "ADD_SERVINGS"
    /\ \E cell \in AddServingCells :
          LET servings == parse_float(cell)
          IN  IF IsNone(servings) \/ RLeqZero(Val(servings))
              THEN UNCHANGED dialog
              ELSE Goto("ADD_PREP_TIME",
                        [dialog.user_data EXCEPT
                            !.add_dish = Some([Val(@) EXCEPT !.data.servings = servings])])
    /\ UNCHANGED <<db, call, sessions, shopping, scaleVars, remVars>>

add_dish_ingredients ==
    /\ dialog.state = "ADD_INGREDIENTS"
    /\ \E message \in IngredientMessages :
          LET data == Val(dialog.user_data.add_dish)
              parsed == parse_ingredient_input(message.parts)
          IN  IF message.finish
              THEN IF data.ingredients = <<>> THEN UNCHANGED dialog
                   ELSE Goto("ADD_INSTRUCTIONS", dialog.user_data)
              ELSE IF parsed.error # "" THEN UNCHANGED dialog
              ELSE /\ Len(data.ingredients) < MaxIngredients
                   /\ Goto("ADD_INGREDIENTS",
                           [dialog.user_data EXCEPT
                               !.add_dish = Some([data EXCEPT !.ingredients =
                                                     Append(@, parsed.ingredient)])])
    /\ UNCHANGED <<db, call, sessions, shopping, scaleVars, remVars>>

\* the last step: the recipe is saved.  A ValueError of add_dish ends the
\* dialog; on any other exception the handler raises.
add_dish_tags ==
    /\ dialog.state = "ADD_TAGS"
    /\ \E message \in TagMessages :
          LET tags == IF message.skip THEN <<>> ELSE parse_tags(message.pieces)
              payload == dialog.user_data.add_dish
              data == IF IsNone(payload) THEN NewDishData ELSE Val(payload).data
              ingredients == IF IsNone(payload) THEN <<>> ELSE Val(payload).ingredients
              ud == [dialog.user_data EXCEPT !.add_dish = None]
              r == add_dish(db, data, ingredients, tags)
          IN  IF r.error = "ValueError"
              THEN Goto("END", ud) /\ UNCHANGED db
              ELSE IF r.error # ""
              THEN Goto(dialog.state, ud) /\ UNCHANGED db
              ELSE /\ db' = log_action(r.db, DialogUser, Some(r.dish_id), "dish_added",
                                       Some([name |-> data.name]))
                   /\ Goto("END", ud)
    /\ UNCHANGED <<call, sessions, shopping, scaleVars, remVars>>

\* ---- the scale dialog
scale_start ==
    /\ \E dish_id \in DishIds :
          LET dish == get_dish_by_id(db, dish_id)
          IN  IF IsNone(dish) THEN dialog.state = "END" /\ UNCHANGED dialog
              ELSE Enter("SCALE_WAITING", [dialog.user_data EXCEPT !.scale = dish])
    /\ UNCHANGED <<db, call, sessions, shopping, scaleVars, remVars>>

\* the answer shown is format_scaled_ingredients(dish, servings)
scale_receive ==
    /\ dialog.state = "SCALE_WAITING"
    /\ \E cell \in ServingCells :
          LET dish == dialog.user_data.scale
              servings == parse_float(cell)
              ud == [dialog.user_data EXCEPT !.scale = None]
          IN  IF IsNone(dish) THEN Goto("END", ud)
              ELSE IF IsNone(servings) \/ RLeqZero(Val(servings))
              THEN Goto("SCALE_WAITING", [ud EXCEPT !.scale = dish])
              ELSE Goto("END", ud)
    /\ UNCHANGED <<db, call, sessions, shopping, scaleVars, remVars>>

\* ---- the add-details dialog
\* at a question for the name of a recipe
SelectTexts == {<<"soup", " ">>, <<"Pie">>, <<"carrot">>}

add_details_entry ==
    /\ Enter("DETAILS_SELECT",
            [dialog.user_data EXCEPT
                !.details = Some([dish |-> None, ingredients |-> Some(<<>>)])])
    /\ UNCHANGED <<db, call, sessions, shopping, scaleVars, remVars>>

add_details_select ==
    /\ dialog.state = "DETAILS_SELECT"
    /\ \E text \in SelectTexts :
          LET dish == DishNamed(db, strip(text))
          IN  IF IsNone(dish) THEN UNCHANGED dialog
              ELSE Goto("DETAILS_INGREDIENTS",
                        [dialog.user_data EXCEPT
                            !.details = Some([dish |-> dish, ingredients |-> Some(<<>>)])])
    /\ UNCHANGED <<db, call, sessions, shopping, scaleVars, remVars>>

\* ingredients None: "leave the lines as they are"
add_details_ingredients ==
    /\ dialog.state = "DETAILS_INGREDIENTS"
    /\ \E message \in IngredientMessages :
          LET details_data == Val(dialog.user_data.details)
              parsed == parse_ingredient_input(message.parts)
          IN  IF message.finish
              THEN Goto("DETAILS_INSTRUCTIONS",
                        [dialog.user_data EXCEPT
                            !.details = Some([details_data EXCEPT !.ingredients =
                                                 IF @ = Some(<<>>) THEN None ELSE @])])
              ELSE IF parsed.error # "" THEN UNCHANGED dialog
              ELSE /\ Len(Val(details_data.ingredients)) < MaxIngredients
                   /\ Goto("DETAILS_INGREDIENTS",
                           [dialog.user_data EXCEPT
                               !.details = Some([details_data EXCEPT !.ingredients =
                                                    Some(Append(Val(@), parsed.ingredient))])])
    /\ UNCHANGED <<db, call, sessions, shopping, scaleVars, remVars>>

add_details_instructions ==
    /\ dialog.state = "DETAILS_INSTRUCTIONS"
    /\ Goto("DETAILS_TAGS", dialog.user_data)
    /\ UNCHANGED <<db, call, sessions, shopping, scaleVars, remVars>>

\* the last step: replace_dish_details, then the log
add_details_tags ==
    /\ dialog.state = "DETAILS_TAGS"
    /\ \E message \in TagMessages :
          LET details_data == dialog.user_data.details
              ud == [dialog.user_data EXCEPT !.details = None]
              dish == IF IsNone(details_data) THEN None ELSE Val(details_data).dish
          IN  IF IsNone(dish) THEN Goto("END", ud) /\ UNCHANGED db
              ELSE LET ingredients_input == Val(details_data).ingredients
                       ingredients == IF IsNone(ingredients_input)
                                      THEN Val(dish).ingredients_list
                                      ELSE Val(ingredients_input)
                       tags == IF message.skip THEN Val(dish).tags
                               ELSE parse_tags(message.pieces)
                       r == replace_dish_details(db, Val(dish).id, ingredients, Some(tags))
                   IN  IF r.error # ""
                       THEN Goto(dialog.state, ud) /\ UNCHANGED db
                       ELSE /\ db' = log_action(r.db, DialogUser, Some(Val(dish).id),
                                                "details_updated",
                                                Some([name |-> Val(dish).name]))
                            /\ Goto("END", ud)
    /\ UNCHANGED <<call, sessions, shopping, scaleVars, remVars>>

\* ---- the edit dialog
\* the buttons of EDITABLE_FIELDS used here, "done" the one mapped to None,
\* and a text that is no button
EditChoices == {"done", "servings", "tags", "other"}

edit_dish_entry ==
    /\ Enter("EDIT_SELECT",
            [dialog.user_data EXCEPT !.edit_dish = Some([dish |-> None, field |-> None])])
    /\ UNCHANGED <<db, call, sessions, shopping, scaleVars, remVars>>

edit_select ==
    /\ dialog.state = "EDIT_SELECT"
    /\ \E text \in SelectTexts :
          LET dish == DishNamed(db, strip(text))
          IN  IF IsNone(dish) THEN UNCHANGED dialog
              ELSE Goto("EDIT_FIELD",
                        [dialog.user_data EXCEPT
                            !.edit_dish = Some([Val(@) EXCEPT !.dish = dish])])
    /\ UNCHANGED <<db, call, sessions, shopping, scaleVars, remVars>>

edit_field ==
    /\ dialog.state = "EDIT_FIELD"
    /\ \E choice \in EditChoices :
          IF choice = "other" THEN UNCHANGED dialog
          ELSE IF choice = "done"
          THEN Goto("END", [dialog.user_data EXCEPT !.edit_dish = None])
          ELSE IF IsNone(Val(dialog.user_data.edit_dish).dish)
          THEN Goto("END", dialog.user_data)
          ELSE Goto("EDIT_VALUE",
                    [dialog.user_data EXCEPT
                        !.edit_dish = Some([Val(@) EXCEPT !.field = Some(choice)])])
    /\ UNCHANGED <<db, call, sessions, shopping, scaleVars, remVars>>

\* the new value of the field chosen: tags go to set_dish_tags, a serving
\* count to update_dish once it is a positive number
edit_value ==
    /\ dialog.state = "EDIT_VALUE"
    /\ db.seq["user_actions"] < MaxLog
    /\ \E cell \in ServingCells, message \in {m \in TagMessages : ~m.skip} :
          LET data == dialog.user_data.edit_dish
              dish == Val(Val(data).dish)
              field == Val(Val(data).field)
              value == parse_float(cell)
              written ==
                  IF field = "tags"
                  THEN set_dish_tags(db, dish.id, parse_tags(message.pieces)).db
                  ELSE update_dish(db, dish.id, [servings |-> value]).db
          IN  IF IsNone(data) \/ IsNone(Val(data).dish) \/ IsNone(Val(data).field)
              THEN Goto("END", dialog.user_data) /\ UNCHANGED db
              ELSE IF field = "servings" /\ (IsNone(value) \/ RLeqZero(Val(value)))
              THEN UNCHANGED <<dialog, db>>
              ELSE /\ db' = log_action(written, DialogUser, Some(dish.id),
                                       "dish_updated", Some([field |-> field]))
                   /\ Goto("EDIT_FIELD",
                           [dialog.user_data EXCEPT
                               !.edit_dish = Some([Val(@) EXCEPT
                                                      !.dish = get_dish_by_id(written, dish.id)])])
    /\ UNCHANGED <<call, sessions, shopping, scaleVars, remVars>>

\* ---- the delete dialog
delete_dish_entry ==
    /\ Enter("DELETE_SELECT", dialog.user_data)
    /\ UNCHANGED <<db, call, sessions, shopping, scaleVars, remVars>>

delete_select ==
    /\ dialog.state = "DELETE_SELECT"
    /\ \E text \in SelectTexts :
          LET dish == DishNamed(db, strip(text))
          IN  IF IsNone(dish) THEN UNCHANGED dialog
              ELSE Goto("DELETE_CONFIRM", [dialog.user_data EXCEPT !.delete_dish = dish])
    /\ UNCHANGED <<db, call, sessions, shopping, scaleVars, remVars>>

\* states.delete_confirm, one step of the dialog: the recipe is deleted and
\* the log is written with its id; when that INSERT is refused the handler
\* raises after the delete is committed
DeleteConfirm ==
    /\ dialog.state = "DELETE_CONFIRM"
    /\ \E text \in Answers :
          LET answer == lower(strip(text))
              dish == dialog.user_data.delete_dish
              ud == [dialog.user_data EXCEPT !.delete_dish = None]
          IN  IF answer \in NO_ANSWERS \/ IsNone(dish)
              THEN Goto("END", ud) /\ UNCHANGED db
              ELSE LET d1 == delete_dish(db, Val(dish).id).db
                   IN  /\ db' = log_action(d1, DialogUser, Some(Val(dish).id),
                                           "dish_deleted", Some([name |-> Val(dish).name]))
                       /\ IF ActionRefused(d1, Some(Val(dish).id))
                          THEN Goto(dialog.state, ud)
                          ELSE Goto("END", ud)
    /\ UNCHANGED <<call, sessions, shopping, scaleVars, remVars>>

\* ---- the import dialog
\* the table of the file sent: one recipe, with a serving count
DialogImports ==
    { << ImportRow(<<"Pie">>, Numeral(Int2Rat(-2))) >>,
      << ImportRow(<<"Pie">>, Numeral(RZero)) >> }

import_start ==
    /\ db.seq["dishes"] < MaxDishIds
    /\ Enter("IMPORT_WAITING_FILE", dialog.user_data)
    /\ UNCHANGED <<db, call, sessions, shopping, scaleVars, remVars>>

import_receive_file ==
    /\ dialog.state = "IMPORT_WAITING_FILE"
    /\ \E rows \in DialogImports :
          LET r == import_dishes(db, rows)
          IN  IF r.error # "" THEN UNCHANGED <<dialog, db>>
              ELSE /\ db' = log_action(r.db, DialogUser, None, "imported",
                                       Some(r.result))
                   /\ Goto("END", dialog.user_data)
    /\ UNCHANGED <<call, sessions, shopping, scaleVars, remVars>>

\* ---- the plan dialog
NewPlan ==
    [dish |-> None, date |-> None, meal_type |-> None, servings |-> None,
     notes |-> None, plan_id |-> None]

\* what utils.parse_date_input made of the message: nothing, yesterday,
\* tomorrow (today is day 1)
DateInputs == {None, Some(0), Some(2)}

\* at the question for the meal
MealTexts == {<<"Obed", " ">>, <<"Brunch">>}

\* at the question for the planned serving count: the skip button or a
\* message
ServingMessages ==
    {[skip |-> TRUE, cell |-> <<>>]} \cup {[skip |-> FALSE, cell |-> c] : c \in ServingCells}

plan_start ==
    /\ db.seq["meal_plans"] < MaxPlans
    /\ Enter("PLAN_CHOOSE_DISH", [dialog.user_data EXCEPT !.plan = Some(NewPlan)])
    /\ UNCHANGED <<db, call, sessions, shopping, scaleVars, remVars>>

plan_choose_dish ==
    /\ dialog.state = "PLAN_CHOOSE_DISH"
    /\ \E text \in SelectTexts :
          LET dish == DishNamed(db, strip(text))
              plan == IF IsNone(dialog.user_data.plan) THEN NewPlan
                      ELSE Val(dialog.user_data.plan)
          IN  IF IsNone(dish) THEN UNCHANGED dialog
              ELSE Goto("PLAN_SET_DATE",
                        [dialog.user_data EXCEPT !.plan = Some([plan EXCEPT !.dish = dish])])
    /\ UNCHANGED <<db, call, sessions, shopping, scaleVars, remVars>>

plan_set_date ==
    /\ dialog.state = "PLAN_SET_DATE"
    /\ \E plan_date \in DateInputs :
          IF IsNone(plan_date) \/ Val(plan_date) < 1
          THEN UNCHANGED dialog
          ELSE Goto("PLAN_SET_MEAL",
                    [dialog.user_data EXCEPT
                        !.plan = Some([Val(@) EXCEPT !.date = plan_date])])
    /\ UNCHANGED <<db, call, sessions, shopping, scaleVars, remVars>>

plan_set_meal ==
    /\ dialog.state = "PLAN_SET_MEAL"
    /\ \E text \in MealTexts :
          LET meal_type == strip(text)
          IN  IF ~(\E i \in 1..Len(MEAL_TYPES) : meal_type = <<MEAL_TYPES[i]>>)
              THEN UNCHANGED dialog
              ELSE Goto("PLAN_SET_SERVINGS",
                        [dialog.user_data EXCEPT
                            !.plan = Some([Val(@) EXCEPT !.meal_type = Some(meal_type[1])])])
    /\ UNCHANGED <<db, call, sessions, shopping, scaleVars, remVars>>

\* servings is a nullable number: skipping takes dish.get("servings", 1),
\* the stored value whatever it is
plan_set_servings ==
    /\ dialog.state = "PLAN_SET_SERVINGS"
    /\ \E message \in ServingMessages :
          LET dish == Val(dialog.user_data.plan).dish
              typed == parse_float(message.cell)
              servings == IF message.skip
                          THEN (IF IsNone(dish) THEN Some(ROne) ELSE Val(dish).servings)
                          ELSE typed
          IN  IF ~message.skip /\ (IsNone(typed) \/ RLeqZero(Val(typed)))
              THEN UNCHANGED dialog
              ELSE Goto("PLAN_SET_NOTES",
                        [dialog.user_data EXCEPT
                            !.plan = Some([Val(@) EXCEPT !.servings = Some(servings)])])
    /\ UNCHANGED <<db, call, sessions, shopping, scaleVars, remVars>>

\* states.plan_set_notes, one step of the dialog: the entry is written from
\* what the steps before collected
PlanSetNotes ==
    /\ dialog.state = "PLAN_SET_NOTES"
    /\ LET plan_data == IF IsNone(dialog.user_data.plan) THEN NewPlan
                        ELSE Val(dialog.user_data.plan)
           dish == Val(plan_data.dish)
           servings == IF IsNone(plan_data.servings) THEN dish.servings
                       ELSE Val(plan_data.servings)
           r == create_meal_plan(db, DialogUser, ChatOf(DialogUser), dish.id,
                                 Val(plan_data.date), Val(plan_data.meal_type),
                                 servings, None)
       IN  IF IsNone(plan_data.dish)
           THEN Goto("END", dialog.user_data) /\ UNCHANGED db
           ELSE IF r.error # "" THEN UNCHANGED <<dialog, db>>
           ELSE /\ db' = log_action(r.db, DialogUser, Some(dish.id), "plan_created",
                                    Some([plan_id |-> r.plan_id]))
                /\ Goto("PLAN_CONFIRM_REMINDER",
                        [dialog.user_data EXCEPT
                            !.plan = Some([plan_data EXCEPT !.plan_id = Some(r.plan_id)])])
    /\ UNCHANGED <<call, sessions, shopping, scaleVars, remVars>>

\* states.plan_confirm_reminder, one step of the dialog
PlanConfirmReminder ==
    /\ dialog.state = "PLAN_CONFIRM_REMINDER"
    /\ \E text \in Answers :
          LET answer == lower(strip(text))
          IN  IF answer \in NO_ANSWERS
              THEN Goto("END", [dialog.user_data EXCEPT !.plan = None])
              ELSE IF answer \notin YES_ANSWERS THEN UNCHANGED dialog
              ELSE Goto("PLAN_SET_REMINDER_TIME", dialog.user_data)
    /\ UNCHANGED <<db, call, sessions, shopping, scaleVars, remVars>>

\* states.plan_set_reminder_time taken in one go: the job is armed, the
\* row and the log are written, the plan is dropped from user_data
PlanSetReminderTime ==
    /\ dialog.state = "PLAN_SET_REMINDER_TIME"
    /\ db.seq["user_actions"] < MaxLog
    /\ \E text \in TimeInputs :
          LET plan_data == Val(dialog.user_data.plan)
              reminder_time == parse_time_input(text)
              remind_dt == DayStart(Val(plan_data.date)) + Val(reminder_time)
              dish == Val(plan_data.dish)
              plan_id == Val(plan_data.plan_id)
              job_name == JobName(plan_id, remind_dt)
              message == ReminderMessage(dish, Val(plan_data.meal_type),
                                         Val(plan_data.date))
              r == add_reminder(db, DialogUser, ChatOf(DialogUser),
                                isoformat(remind_dt), message, job_name,
                                Some(dish.id), Some(plan_id))
              job == run_once(CreationDelay(remind_dt, now), job_name,
                              [chat_id |-> ChatOf(DialogUser), message |-> message,
                               reminder_time |-> isoformat(remind_dt),
                               reminder_id |-> Some(r.reminder_id),
                               plan_id |-> Some(plan_id),
                               dish_id |-> Some(dish.id), user_id |-> DialogUser],
                              now, "creation")
          IN  IF IsNone(dialog.user_data.plan)
              THEN Goto("END", dialog.user_data) /\ UNCHANGED <<db, job_queue>>
              ELSE IF IsNone(reminder_time) \/ TimePassed(remind_dt, now)
              THEN UNCHANGED <<dialog, db, job_queue>>
              ELSE /\ r.error = ""
                   /\ job_queue' = Append(job_queue, job)
                   /\ db' = log_action(r.db, DialogUser, Some(dish.id),
                                       "reminder_scheduled",
                                       Some([reminder_id |-> r.reminder_id]))
                   /\ Goto("END", [dialog.user_data EXCEPT !.plan = None])
    /\ UNCHANGED <<now, up, conversations, user_data, task, chat, history,
                   call, sessions, shopping, scaleVars>>

\* the store when the dialogs start: one recipe, no plan entry
DialogInit ==
    /\ db = MenuStore
    /\ dialog = NoDialog
    /\ call = NoStoreCall
    /\ sessions = NoSessions

DialogNext ==
    \/ cancel
    \/ add_dish_entry \/ add_dish_name \/ add_dish_column \/ add_dish_servings
    \/ add_dish_ingredients \/ add_dish_tags
    \/ add_details_entry \/ add_details_select \/ add_details_ingredients
    \/ add_details_instructions \/ add_details_tags
    \/ edit_dish_entry \/ edit_select \/ edit_field \/ edit_value
    \/ delete_dish_entry \/ delete_select \/ DeleteConfirm
    \/ import_start \/ import_receive_file
    \/ plan_start \/ plan_choose_dish \/ plan_set_date \/ plan_set_meal
    \/ plan_set_servings \/ PlanSetNotes \/ PlanConfirmReminder
    \/ PlanSetReminderTime
    \/ scale_start \/ scale_receive

(***************************************************************************)
(* Several sessions on one store.  Each operation is one transaction on a  *)
(* connection of its own (get_db_connection turns the foreign keys on),    *)
(* so the calls of the sessions happen one after the other in any order;   *)
(* a session passes the id of a recipe or of a plan entry it read earlier, *)
(* which another session may have deleted since.  call holds the last      *)
(* call and its outcome, without the store it started from.                *)
(***************************************************************************)
\* the ids a session may hold: every id ever given out, and one never given
HeldIds(table) == 1..(db.seq[table] + 1)

\* the rows ever written to the store
HeldRows ==
    db.seq["dishes"] + db.seq["dish_ingredients"] + db.seq["dish_tags"]
        + db.seq["meal_plans"] + db.seq["reminders"] + db.seq["user_actions"]

\* the call has returned r
Returned(op, id, arg, r) ==
    /\ db' = r.db
    /\ call' = Called(op, id, arg, r, EmptyDb)
    /\ UNCHANGED <<sessions, dialog, shopping, scaleVars, remVars>>

\* await database.add_dish(dish_data, ingredients, tags)
HeldAddDish ==
    /\ HeldRows < MaxHeldRows
    /\ LET r == add_dish(db, [name |-> <<"Pie">>, servings |-> Some(Int2Rat(2))],
                         DetailsOf(<<"Soup">>).ingredients, DetailsOf(<<"Soup">>).tags)
       IN  Returned("add_dish", r.dish_id, <<>>,
                    [error |-> r.error, result |-> r.error = "", db |-> r.db])

\* await database.replace_dish_details(dish_id, ingredients, tags=tags)
HeldReplaceDetails ==
    /\ HeldRows < MaxHeldRows
    /\ \E dish_id \in HeldIds("dishes") :
          Returned("replace_dish_details", dish_id, <<>>,
                   replace_dish_details(db, dish_id, DetailsOf(<<"Soup">>).ingredients,
                                        Some(DetailsOf(<<"Soup">>).tags)))

\* await database.set_dish_tags(dish_id, tags)
HeldSetTags ==
    /\ HeldRows < MaxHeldRows
    /\ \E dish_id \in HeldIds("dishes") :
          Returned("set_dish_tags", dish_id, <<>>,
                   set_dish_tags(db, dish_id, DetailsOf(<<"Soup">>).tags))

\* await database.create_meal_plan(...)
HeldCreatePlan ==
    /\ HeldRows < MaxHeldRows
    /\ \E dish_id \in HeldIds("dishes") :
          LET r == create_meal_plan(db, "u1", ChatOf("u1"), dish_id, 1,
                                    MEAL_TYPES[1], Some(Int2Rat(2)), None)
          IN  Returned("create_meal_plan", dish_id, <<>>,
                       [error |-> r.error, result |-> r.error = "", db |-> r.db])

\* await database.add_reminder(...)
HeldAddReminder ==
    /\ HeldRows < MaxHeldRows
    /\ \E dish_id \in {None} \cup {Some(x) : x \in HeldIds("dishes")},
          plan_id \in {None} \cup {Some(p) : p \in HeldIds("meal_plans")} :
          LET remind_dt == DayStart(1) + 60 * SECOND
              r == add_reminder(db, "u1", ChatOf("u1"), isoformat(remind_dt), <<>>,
                                JobName(IF IsNone(plan_id) THEN 0 ELSE Val(plan_id),
                                        remind_dt),
                                dish_id, plan_id)
          IN  Returned("add_reminder", 0, <<dish_id, plan_id>>,
                       [error |-> r.error, result |-> r.error = "", db |-> r.db])

\* await database.log_action(user_id, dish_id, action)
HeldLogAction ==
    /\ HeldRows < MaxHeldRows
    /\ \E dish_id \in {None} \cup {Some(x) : x \in HeldIds("dishes")} :
          Returned("log_action", 0, dish_id,
                   [error |-> IF ActionRefused(db, dish_id)
                              THEN "IntegrityError" ELSE "",
                    result |-> ~ActionRefused(db, dish_id),
                    db |-> log_action(db, "u1", dish_id, "dish_viewed", None)])

\* await database.delete_dish(dish_id)
HeldDeleteDish ==
    \E dish_id \in HeldIds("dishes") :
        Returned("delete_dish", dish_id, <<>>, delete_dish(db, dish_id))

\* await database.delete_meal_plan(plan_id, user_id)
HeldDeletePlan ==
    \E plan_id \in HeldIds("meal_plans") :
        Returned("delete_meal_plan", plan_id, <<>>, delete_meal_plan(db, plan_id, "u1"))

\* an ingredient list that names carrot, in pieces, twice
RepeatedLines ==
    LET line == (CHOOSE l \in LineInputs : l # <<>>)[1]
    IN  <<line, [line EXCEPT !.quantity = Some(Int2Rat(1))]>>

\* await database.replace_dish_details(...) with that list; call holds the
\* store the call started from
HeldReplaceRepeated ==
    /\ \E dish_id \in HeldIds("dishes") :
          LET r == replace_dish_details(db, dish_id, RepeatedLines,
                                        Some(<< <<"Pie">> >>))
          IN  /\ db' = r.db
              /\ call' = Called("replace_dish_details", dish_id, <<>>, r, db)
    /\ UNCHANGED <<sessions, dialog, shopping, scaleVars, remVars>>

\* await database.add_dish(...) with that list
HeldAddRepeated ==
    /\ LET r == add_dish(db, [name |-> <<"Pie">>, servings |-> Some(Int2Rat(2))],
                         RepeatedLines, << <<"Pie">> >>)
       IN  /\ db' = r.db
           /\ call' = Called("add_dish", r.dish_id, <<>>,
                             [error |-> r.error, result |-> r.error = ""], db)
    /\ UNCHANGED <<sessions, dialog, shopping, scaleVars, remVars>>

\* the calls of the sessions
HeldNext ==
    \/ HeldAddDish \/ HeldReplaceDetails \/ HeldSetTags
    \/ HeldReplaceRepeated \/ HeldAddRepeated
    \/ HeldCreatePlan \/ HeldAddReminder \/ HeldLogAction
    \/ HeldDeleteDish \/ HeldDeletePlan


\* another session's await database.replace_dish_details(dish_id, lines)
\* while this session's add-details dialog is under way
OtherReplaceDetails ==
    /\ HeldRows < MaxHeldRows
    /\ \E dish_id \in DOMAIN db.dishes :
          db' = replace_dish_details(db, dish_id, <<RepeatedLines[2]>>, None).db
    /\ UNCHANGED <<call, sessions, dialog, shopping, scaleVars, remVars>>

\* the add-details dialog of one session and the other session's call
DetailsNext ==
    \/ add_details_entry \/ add_details_select \/ add_details_ingredients
    \/ add_details_instructions \/ add_details_tags
    \/ OtherReplaceDetails

(***************************************************************************)
(* Specifications.  Each one runs one part of the program and leaves the   *)
(* variables of the other parts at rest.                                   *)
(***************************************************************************)
ScaleIdle ==
    /\ scale_pc = "idle"
    /\ scale_in = [ingredients |-> <<>>, base_servings |-> ROne, new_servings |-> ROne]
    /\ scale_orig = <<>>
    /\ scale_out = <<>>
    /\ scale_back = <<>>

ShopIdle == db = EmptyDb /\ shopping = NoCall

StoreIdle == call = NoStoreCall /\ sessions = NoSessions /\ dialog = NoDialog

InitScale == ScaleInit /\ ShopIdle /\ RemIdle /\ StoreIdle

SpecScale == InitScale /\ [][ScaleNext]_vars

InitShop == ShopInit /\ ScaleIdle /\ RemIdle /\ StoreIdle

SpecShop == InitShop /\ [][ShopNext]_vars

InitRem == RemInit /\ shopping = NoCall /\ ScaleIdle /\ StoreIdle

SpecRem == InitRem /\ [][RemNext]_vars

SpecRetry == InitRem /\ [][RetryNext]_vars

SpecFire == InitRem /\ [][FireNext]_vars

SpecGone == InitRem /\ [][GoneNext]_vars

InitDish ==
    StoreInit /\ sessions = NoSessions /\ dialog = NoDialog /\ shopping = NoCall /\ ScaleIdle /\ RemIdle

SpecDish == InitDish /\ [][StoreNext]_vars

InitEdit ==
    EditInit /\ sessions = NoSessions /\ dialog = NoDialog /\ shopping = NoCall /\ ScaleIdle /\ RemIdle

SpecEdit == InitEdit /\ [][EditNext]_vars

InitPlan ==
    PlanInit /\ sessions = NoSessions /\ dialog = NoDialog /\ shopping = NoCall /\ ScaleIdle /\ RemIdle

SpecPlan == InitPlan /\ [][PlanNext]_vars

InitMenu ==
    MenuInit /\ sessions = NoSessions /\ dialog = NoDialog /\ shopping = NoCall /\ ScaleIdle /\ RemIdle

SpecMenu == InitMenu /\ [][MenuNext]_vars

SpecHeld == InitEdit /\ [][HeldNext]_vars

InitDialog == DialogInit /\ shopping = NoCall /\ ScaleIdle /\ RemIdle

SpecDialog == InitDialog /\ [][DialogNext]_vars

\* the add-details dialog next to another session
SpecDetails == InitDialog /\ [][DetailsNext]_vars

InitRace ==
    RaceInit /\ dialog = NoDialog /\ shopping = NoCall /\ ScaleIdle /\ RemIdle

SpecRace == InitRace /\ [][RaceNext]_vars

(***************************************************************************)
(* Claims on recipe scaling (SpecScale).                                   *)
(***************************************************************************)
NUMERIC_KEYS == {"quantity", "calories", "protein", "fat", "carbs"}

RPositive(a) == a[1] > 0

ScaleArgsPositive ==
    RPositive(scale_in.base_servings) /\ RPositive(scale_in.new_servings)

\* C3: for B > 0 and N > 0 the list scale_ingredients returns has, line by
\* line, the name and unit of the input, a null where the input has a null,
\* and otherwise value * N / B (stated as out * B = in * N); the caller's
\* list is as it was before the call.
C3_ScaleContract ==
    (scale_pc \in {"scaled", "restored"} /\ ScaleArgsPositive) =>
        /\ Len(scale_out) = Len(scale_orig)
        /\ scale_in.ingredients = scale_orig
        /\ \A i \in 1..Len(scale_orig) :
              /\ scale_out[i].name = scale_orig[i].name
              /\ scale_out[i].unit = scale_orig[i].unit
              /\ \A key \in NUMERIC_KEYS :
                    /\ IsNone(scale_out[i][key]) <=> IsNone(scale_orig[i][key])
                    /\ ~IsNone(scale_orig[i][key]) =>
                          RMul(Val(scale_out[i][key]), scale_in.base_servings)
                            = RMul(Val(scale_orig[i][key]), scale_in.new_servings)

\* a call with B = 2, N = 3 on a list holding a null quantity, a non-null
\* quantity, a null macro and a non-null macro
C3_Witness ==
    /\ scale_pc = "scaled"
    /\ scale_in.base_servings = Int2Rat(2)
    /\ scale_in.new_servings = Int2Rat(3)
    /\ \E i, j \in 1..Len(scale_orig) :
          /\ IsNone(scale_orig[i].quantity)
          /\ scale_orig[j].quantity = Some(Int2Rat(4))
          /\ scale_out[j].quantity = Some(Int2Rat(6))
          /\ IsNone(scale_orig[j].fat)
          /\ ~IsNone(scale_orig[j].carbs)

\* C4: for B > 0 and N > 0, scaling to N and then back to B returns the
\* quantities and macros of the original list, nulls still null.
C4_ScaleRoundTrip ==
    (scale_pc = "restored" /\ ScaleArgsPositive) =>
        /\ Len(scale_back) = Len(scale_orig)
        /\ \A i \in 1..Len(scale_orig) : \A key \in NUMERIC_KEYS :
              scale_back[i][key] = scale_orig[i][key]

\* a round trip with N/B not an integer, on a line with a quantity and a null
C4_Witness ==
    /\ scale_pc = "restored"
    /\ scale_in.base_servings = Int2Rat(2)
    /\ scale_in.new_servings = Int2Rat(3)
    /\ \E i \in 1..Len(scale_orig) :
          /\ scale_orig[i].quantity = Some(Rat(1, 2))
          /\ scale_out[i].quantity = Some(Rat(3, 4))
          /\ scale_back[i].quantity = Some(Rat(1, 2))
          /\ IsNone(scale_orig[i].fat)

(***************************************************************************)
(* Claims on plan aggregation (SpecShop).  The expected values are         *)
(* computed from the tables, without the operators of get_shopping_list.   *)
(***************************************************************************)
\* the text without its leading and trailing blanks
Trimmed(text) ==
    LET solid == {i \in 1..Len(text) : text[i] # " "}
    IN  IF solid = {} THEN <<>>
        ELSE SubSeq(text, CHOOSE i \in solid : \A j \in solid : i <= j,
                          CHOOSE i \in solid : \A j \in solid : j <= i)

\* the pairs of words that differ in case only
CASE_PAIRS ==
    {{"Sugar", "sugar"}, {"Soup", "soup"}, {"Pie", "pie"},
     {"Cyr:Borshch", "Cyr:borshch"}}

EqualIgnoringCase(a, b) ==
    /\ Len(a) = Len(b)
    /\ \A i \in 1..Len(a) : a[i] = b[i] \/ {a[i], b[i]} \in CASE_PAIRS

\* the (plan entry, ingredient line) pairs the last call had to aggregate
CallRows ==
    {pr \in (DOMAIN db.meal_plans) \X (DOMAIN db.dish_ingredients) :
        /\ db.meal_plans[pr[1]].user_id = shopping.user_id
        /\ db.meal_plans[pr[1]].plan_date \in shopping.start_date..shopping.end_date
        /\ db.dish_ingredients[pr[2]].dish_id = db.meal_plans[pr[1]].dish_id
        /\ Trimmed(db.dish_ingredients[pr[2]].name) # <<>>}

SameGroup(name1, unit1, name2, unit2) ==
    EqualIgnoringCase(Trimmed(name1), Trimmed(name2)) /\ unit1 = unit2

\* quantity * planned_servings / base_servings of one pair (0 for a null quantity)
PairQuantity(pr) ==
    LET line == db.dish_ingredients[pr[2]]
        plan == db.meal_plans[pr[1]]
    IN  IF IsNone(line.quantity) THEN RZero
        ELSE RDiv(RMul(Val(line.quantity), Val(plan.servings)),
                  Val(db.dishes[plan.dish_id].servings))

RECURSIVE SumQuantity(_)
SumQuantity(pairs) ==
    IF pairs = {} THEN RZero
    ELSE LET pr == CHOOSE x \in pairs : TRUE
         IN  RAdd(PairQuantity(pr), SumQuantity(pairs \ {pr}))

\* C1: the quantity of every item of the returned list is the sum, over the
\* (plan entry, ingredient line) pairs of the user and date range that have
\* the item's name (ignoring case) and unit, of
\* quantity * planned_servings / base_servings.
C1_AggregatedQuantity ==
    shopping.done =>
        \A k \in 1..Len(shopping.result.items) :
            LET item == shopping.result.items[k]
                group == {pr \in CallRows :
                            SameGroup(db.dish_ingredients[pr[2]].name,
                                      db.dish_ingredients[pr[2]].unit,
                                      item.name, item.unit)}
            IN  /\ group # {}
                /\ item.quantity = SumQuantity(group)

\* the example: base servings 2, carrot 4 pcs, planned servings 3 give the
\* single item carrot/pcs with quantity 6
C1_Witness ==
    /\ shopping.done
    /\ Len(shopping.result.items) = 1
    /\ shopping.result.items[1].name = <<"carrot">>
    /\ shopping.result.items[1].unit = Some(<<"pcs">>)
    /\ shopping.result.items[1].quantity = Int2Rat(6)
    /\ \E p \in DOMAIN db.meal_plans :
          /\ db.meal_plans[p].servings = Some(Int2Rat(3))
          /\ db.dishes[db.meal_plans[p].dish_id].servings = Some(Int2Rat(2))
          /\ shopping.result.items[1].from_rows
                = {<<p, i>> : i \in IngredientsOf(db, db.meal_plans[p].dish_id)}

\* C2: two (plan entry, ingredient line) pairs are added into the same item
\* exactly when their trimmed names are equal ignoring case and their units
\* are equal (two null units are equal).
C2_GroupingKey ==
    shopping.done =>
        \A r1 \in CallRows, r2 \in CallRows :
            (\E k \in 1..Len(shopping.result.items) :
                {r1, r2} \subseteq shopping.result.items[k].from_rows)
            <=> SameGroup(db.dish_ingredients[r1[2]].name, db.dish_ingredients[r1[2]].unit,
                          db.dish_ingredients[r2[2]].name, db.dish_ingredients[r2[2]].unit)

\* "Sugar"/"g" and "sugar"/"g" of two recipes are one item, "sugar"/"kg" is
\* another, and two lines with a null unit are one item
C2_Witness ==
    /\ shopping.done
    /\ \E k1, k2, k3 \in 1..Len(shopping.result.items) :
          LET a == shopping.result.items[k1]
              b == shopping.result.items[k2]
              c == shopping.result.items[k3]
          IN  /\ a.unit = Some(<<"g">>)
              /\ \E r1, r2 \in a.from_rows :
                    /\ db.dish_ingredients[r1[2]].name = <<"Sugar">>
                    /\ db.dish_ingredients[r2[2]].name = <<"sugar">>
              /\ b.unit = Some(<<"kg">>)
              /\ lower(b.name) = lower(a.name)
              /\ c.unit = None
              /\ Cardinality(c.from_rows) = 2

(***************************************************************************)
(* Claims on the reminder lifecycle (SpecRem).                             *)
(***************************************************************************)
\* the handler that armed job i is still at work on it
DialogFor(i) == task.pc # "idle" /\ task.job = i

\* the fire time a job carries in its data
FireTime(job) == fromisoformat(job.data.reminder_time).value

\* how often the notification of a job has reached its chat
TimesSent(job) == CopiesIn(Notification(job), chat)

Delivered(job_name) == \E m \in BagToSet(chat) : m.job_name = job_name

JobsNamed(job_name) == {i \in DOMAIN job_queue : job_queue[i].name = job_name}

\* C5: once a job has sent its notification and its callback has ended, and
\* the handler that armed it has ended too, the Store holds no row of that
\* reminder: the row was deleted after the send, whether the job was armed
\* at creation or by the recovery pass.
C5_SentThenDeleted ==
    \A i \in DOMAIN job_queue :
        (job_queue[i].pc = "done" /\ ~DialogFor(i))
            => job_queue[i].name \notin StoredNames

\* the rows of the Store and the jobs of the queue correspond one to one,
\* each job armed by the recovery pass with the id, chat, message and job
\* name of its row
RecoveryMatches ==
    /\ Len(job_queue) = Cardinality(DOMAIN db.reminders)
    /\ \A id \in DOMAIN db.reminders :
          LET js == {i \in DOMAIN job_queue :
                        job_queue[i].data.reminder_id = Some(id)}
          IN  /\ Cardinality(js) = 1
              /\ \A i \in js :
                    /\ job_queue[i].pc = "armed"
                    /\ job_queue[i].armed_by = "recovery"
                    /\ job_queue[i].name = db.reminders[id].job_name
                    /\ job_queue[i].data.chat_id = db.reminders[id].chat_id
                    /\ job_queue[i].data.message = db.reminders[id].message

\* C6: a restart (the recovery pass) arms exactly one trigger for every
\* reminder row in the Store and no other, each with the row's reminder id,
\* channel id, message and job name.
C6_RecoveryArmsEachRow == [][(~up /\ up') => RecoveryMatches']_vars

\* a restart has just armed the triggers of two rows
C6_Witness ==
    /\ up /\ history.crashes >= 1
    /\ Cardinality(DOMAIN db.reminders) = 2
    /\ Len(job_queue) = 2
    /\ \A i \in DOMAIN job_queue :
          job_queue[i].pc = "armed" /\ job_queue[i].armed_by = "recovery"
    /\ job_queue[1].data.chat_id # job_queue[2].data.chat_id

\* C7: after the one crash that found a reminder stored and armed but not
\* fired, the restart re-arms it, once, with the delay max(fire time - now,
\* 1 second), and its notification reaches the chat at most once, exactly
\* once when the callback has sent it.
C7_RestartBeforeFiring ==
    (up /\ history.crashes = 1) =>
        \A n \in history.committed :
            /\ Cardinality(JobsNamed(n)) = 1
            /\ \A i \in JobsNamed(n) :
                  LET job == job_queue[i]
                  IN  /\ job.armed_by = "recovery"
                      /\ job.when = Max(FireTime(job) - job.at, SECOND)
                      /\ TimesSent(job) <= 1
                      /\ (job.pc \in {"sent", "removed", "done"})
                             <=> (TimesSent(job) = 1)

\* a reminder set in the dialog, interrupted by the crash before it fired,
\* has been re-armed with a shorter delay and sent
C7_Witness ==
    /\ up /\ history.crashes = 1
    /\ \E n \in history.committed : \E i \in JobsNamed(n) :
          /\ job_queue[i].data.user_id = "u1"
          /\ job_queue[i].pc = "done"
          /\ job_queue[i].at > 0
          /\ job_queue[i].when > SECOND
          /\ TimesSent(job_queue[i]) = 1

\* C8: a reminder whose trigger was armed and had not fired when the
\* process crashed has been delivered, or its row is in the Store for the
\* next recovery pass to arm: nothing else can deliver it later.
C8_OwedStaysDeliverable ==
    \A n \in history.owed : Delivered(n) \/ n \in StoredNames

\* C9: once the callback of a job has ended on a failed send, the Store
\* holds no row of that reminder, so no later recovery pass sends it again.
C9_FailedSendStillDeletes ==
    \A i \in DOMAIN job_queue :
        (job_queue[i].pc = "failed" /\ ~DialogFor(i))
            => job_queue[i].name \notin StoredNames

\* C10 as stated: every trigger, armed at creation or at recovery, has a
\* delay of at least 1 second.
C10_DelayAtLeastOneSecond ==
    \A i \in DOMAIN job_queue : job_queue[i].when >= SECOND

\* C10 as amended: a trigger armed by the recovery pass has the delay
\* max(fire time - now, 1 second), so at least 1 second, also for an overdue
\* row; a trigger armed at creation has the delay fire time - now, which is
\* positive, since a fire time that is not after now is refused.
C10_DelayFloorAtRecovery ==
    \A i \in DOMAIN job_queue :
        LET job == job_queue[i]
        IN  /\ job.armed_by = "recovery" =>
                  /\ job.when = Max(FireTime(job) - job.at, SECOND)
                  /\ job.when >= SECOND
            /\ job.armed_by = "creation" =>
                  /\ job.when = FireTime(job) - job.at
                  /\ job.when > 0

\* half a second before the fire time, the recovery pass has armed a row
\* with the 1-second delay and the dialog has armed a trigger with the half
\* second that is left
C10_Witness ==
    \E i, j \in DOMAIN job_queue :
        /\ job_queue[i].armed_by = "recovery"
        /\ FireTime(job_queue[i]) - job_queue[i].at < SECOND
        /\ job_queue[i].when = SECOND
        /\ job_queue[j].armed_by = "creation"
        /\ job_queue[j].when < SECOND

(***************************************************************************)
(* Further claims on plan aggregation (SpecShop).                          *)
(***************************************************************************)
\* the value of one macro of one pair, scaled: value * planned / base
PairMacro(pr, macro) ==
    LET line == db.dish_ingredients[pr[2]]
        plan == db.meal_plans[pr[1]]
    IN  RDiv(RMul(Val(line[macro]), Val(plan.servings)),
             Val(db.dishes[plan.dish_id].servings))

RECURSIVE SumMacro(_, _)
SumMacro(pairs, macro) ==
    IF pairs = {} THEN RZero
    ELSE LET pr == CHOOSE x \in pairs : TRUE
         IN  RAdd(PairMacro(pr, macro), SumMacro(pairs \ {pr}, macro))

\* C19: each macro of an item is the sum of the scaled non-null values of
\* the item's rows when one of them has a value, and is null (absent), not
\* 0, when every row's value is null.
C19_MacroSumOrAbsent ==
    shopping.done =>
        \A k \in 1..Len(shopping.result.items) :
            LET item == shopping.result.items[k]
                group == {pr \in CallRows :
                            SameGroup(db.dish_ingredients[pr[2]].name,
                                      db.dish_ingredients[pr[2]].unit,
                                      item.name, item.unit)}
            IN  \A macro \in {MACROS[i] : i \in 1..Len(MACROS)} :
                    LET valued == {pr \in group :
                                      ~IsNone(db.dish_ingredients[pr[2]][macro])}
                    IN  IF valued # {}
                        THEN item[macro] = SumMacro(valued, macro)
                        ELSE IsNone(item[macro])

\* the ids of the plan entries of the user and date range of the last call
CallPlans ==
    {p \in DOMAIN db.meal_plans :
        /\ db.meal_plans[p].user_id = shopping.user_id
        /\ db.meal_plans[p].plan_date \in shopping.start_date..shopping.end_date}

\* C20: the plans list holds every plan entry of the user and date range
\* exactly once, with the entry's own fields, in the order of the rows (by
\* date, then recipe name), whether its recipe has several ingredient lines
\* or none; only real ingredient lines are added into the items.
C20_PlansOncePerEntry ==
    shopping.done =>
        LET plans == shopping.result.plans
        IN  /\ Len(plans) = Cardinality(CallPlans)
            /\ {plans[k].plan_id : k \in 1..Len(plans)} = CallPlans
            /\ \A k \in 1..Len(plans) :
                  LET mp == db.meal_plans[plans[k].plan_id]
                  IN  /\ plans[k].plan_date = mp.plan_date
                      /\ plans[k].meal_type = mp.meal_type
                      /\ plans[k].dish_id = mp.dish_id
                      /\ plans[k].planned_servings = mp.servings
                      /\ plans[k].dish_name = db.dishes[mp.dish_id].name
                      /\ plans[k].base_servings = db.dishes[mp.dish_id].servings
            /\ \A k, l \in 1..Len(plans) :
                  k < l =>
                      \/ plans[k].plan_date < plans[l].plan_date
                      \/ /\ plans[k].plan_date = plans[l].plan_date
                         /\ ~TextLess(plans[l].dish_name, plans[k].dish_name)
            /\ \A k \in 1..Len(shopping.result.items) :
                  shopping.result.items[k].from_rows \subseteq CallRows

\* two entries are listed: one whose recipe has no ingredient line and one
\* whose recipe has several, and only the latter fills the items
C20_Witness ==
    /\ shopping.done
    /\ Len(shopping.result.plans) = 2
    /\ \E k, l \in 1..2 :
          /\ IngredientsOf(db, shopping.result.plans[k].dish_id) = {}
          /\ Cardinality(IngredientsOf(db, shopping.result.plans[l].dish_id)) >= 2
    /\ shopping.result.items # <<>>

(***************************************************************************)
(* Claims on the store operations (SpecDish, SpecPlan, SpecRace).          *)
(***************************************************************************)
\* the rows of a table of store d that belong to recipe dish_id
RowsOfDish(d, table, dish_id) ==
    {id \in DOMAIN d[table] : d[table][id].dish_id = dish_id}

\* the recipes of store d whose name equals name but for case
SameNamed(d, name) ==
    {id \in DOMAIN d.dishes : EqualIgnoringCase(d.dishes[id].name, name)}

\* C13: in every reachable state, after any sequence of add_dish,
\* update_dish (renames included), import_dishes, replace_dish_details and
\* delete_dish, no two recipes have names that are equal ignoring case.
C13_NamesUniqueIgnoringCase ==
    \A a \in DOMAIN db.dishes, b \in DOMAIN db.dishes :
        a # b => ~EqualIgnoringCase(db.dishes[a].name, db.dishes[b].name)

\* C14: add_dish with a name that equals an existing recipe's name ignoring
\* case, a name outside ASCII included, fails with a validation failure
\* (ValueError) and leaves every table as it was.
C14_DuplicateNameRejected ==
    (/\ call.op = "add_dish"
     /\ SameNamed(call.before, strip(call.arg)) # {})
        => (call.error = "ValueError" /\ db = call.before)

\* both add_dish calls of the two sessions have returned or raised
RaceOver == \A s \in Sessions : sessions[s].pc \in {"done", "raised"}

\* the ingredient lines a session's call writes when it succeeds
LinesWritten(s) ==
    IF sessions[s].pc = "done" THEN Len(sessions[s].ingredients) ELSE 0

\* C15: when two sessions run add_dish concurrently with the same name
\* (ignoring case), then under every interleaving of their check and insert
\* steps exactly one recipe of that name exists afterwards, and the other
\* call is rejected and has written no row.
C15_RaceKeepsOneRow ==
    (/\ RaceOver
     /\ strip(sessions["s1"].name) # <<>>
     /\ EqualIgnoringCase(strip(sessions["s1"].name), strip(sessions["s2"].name)))
        => /\ Cardinality(SameNamed(db, strip(sessions["s1"].name))) = 1
           /\ \E s \in Sessions : sessions[s].pc = "raised"
           /\ Cardinality(DOMAIN db.dishes)
                  = Cardinality(DOMAIN call.before.dishes)
                        + Cardinality({s \in Sessions : sessions[s].pc = "done"})
           /\ Cardinality(DOMAIN db.dish_ingredients)
                  = Cardinality(DOMAIN call.before.dish_ingredients)
                        + LinesWritten("s1") + LinesWritten("s2")

\* the reminders of store d that reference recipe dish_id
RemindersOfDish(d, dish_id) ==
    {id \in DOMAIN d.reminders : d.reminders[id].dish_id = Some(dish_id)}

\* the reminders of store d that reference one of the plan entries plan_ids
RemindersOfPlans(d, plan_ids) ==
    {id \in DOMAIN d.reminders :
        /\ ~IsNone(d.reminders[id].plan_id)
        /\ Val(d.reminders[id].plan_id) \in plan_ids}

\* the last call was a delete_dish that found its recipe
DishDeleted == call.op = "delete_dish" /\ call.result

\* delete_dish has removed the ingredient lines, the tags and the plan
\* entries of the recipe
ChildrenRemoved ==
    /\ call.id \notin DOMAIN db.dishes
    /\ \A table \in {"dish_ingredients", "dish_tags", "meal_plans"} :
          DOMAIN db[table]
              = (DOMAIN call.before[table]) \ RowsOfDish(call.before, table, call.id)

\* C16 as stated: delete_dish on an existing recipe removes its ingredient
\* lines, its tags and the plan entries that reference it, and every
\* reminder that referenced the recipe stays in the store, with a null
\* recipe reference.
C16_DeleteDishKeepsReminders ==
    DishDeleted =>
        /\ ChildrenRemoved
        /\ \A id \in RemindersOfDish(call.before, call.id) :
              /\ id \in DOMAIN db.reminders
              /\ db.reminders[id] = [call.before.reminders[id] EXCEPT !.dish_id = None]

\* C16, amended: delete_dish on an existing recipe removes its ingredient
\* lines, its tags and the plan entries that reference it; a reminder that
\* references one of those plan entries is removed with the entry; every
\* other reminder that referenced the recipe stays, with a null recipe
\* reference; the remaining reminders are as they were.
C16_DeleteDishCascade ==
    DishDeleted =>
        LET plan_ids == RowsOfDish(call.before, "meal_plans", call.id)
            gone == RemindersOfPlans(call.before, plan_ids)
        IN  /\ ChildrenRemoved
            /\ DOMAIN db.reminders = (DOMAIN call.before.reminders) \ gone
            /\ \A id \in DOMAIN db.reminders :
                  db.reminders[id] =
                      IF id \in RemindersOfDish(call.before, call.id)
                      THEN [call.before.reminders[id] EXCEPT !.dish_id = None]
                      ELSE call.before.reminders[id]

\* a recipe with a line, a tag, a plan entry, a reminder of that entry and
\* a reminder of the recipe alone has just been deleted
C16_Witness ==
    /\ DishDeleted
    /\ \A table \in {"dish_ingredients", "dish_tags", "meal_plans"} :
          RowsOfDish(call.before, table, call.id) # {}
    /\ \E r1 \in RemindersOfDish(call.before, call.id),
          r2 \in RemindersOfDish(call.before, call.id) :
          /\ ~IsNone(call.before.reminders[r1].plan_id)
          /\ IsNone(call.before.reminders[r2].plan_id)
          /\ r1 \notin DOMAIN db.reminders
          /\ r2 \in DOMAIN db.reminders

\* C17: delete_meal_plan, called for an entry of the caller, removes the
\* entry and every reminder that references it; whatever it is called for,
\* it leaves the recipes, ingredient lines, tags, the other plan entries
\* and the other reminders as they were.
C17_DeletePlanFrame ==
    call.op = "delete_meal_plan" =>
        LET mine == /\ call.id \in DOMAIN call.before.meal_plans
                    /\ call.before.meal_plans[call.id].user_id = call.arg
            plan_ids == IF mine THEN {call.id} ELSE {}
        IN  /\ call.result = mine
            /\ db.meal_plans = Without(call.before.meal_plans, plan_ids)
            /\ db.reminders
                   = Without(call.before.reminders,
                             RemindersOfPlans(call.before, plan_ids))
            /\ db.dishes = call.before.dishes
            /\ db.dish_ingredients = call.before.dish_ingredients
            /\ db.dish_tags = call.before.dish_tags

\* an entry with a reminder has just been deleted, in a store that holds
\* another entry, another reminder, and a recipe with a line and a tag
C17_Witness ==
    /\ call.op = "delete_meal_plan" /\ call.result
    /\ RemindersOfPlans(call.before, {call.id}) # {}
    /\ DOMAIN db.meal_plans # {}
    /\ DOMAIN db.reminders # {}
    /\ DOMAIN db.dish_ingredients # {}
    /\ DOMAIN db.dish_tags # {}

\* the last call named a recipe, or a plan entry, that the store did not hold
MissingTarget ==
    \/ /\ call.op \in {"update_dish", "delete_dish", "replace_dish_details",
                       "set_dish_tags"}
       /\ call.id \notin DOMAIN call.before.dishes
    \/ /\ call.op = "delete_meal_plan"
       /\ call.id \notin DOMAIN call.before.meal_plans

\* C18: update_dish, delete_dish, replace_dish_details, set_dish_tags and
\* delete_meal_plan applied to a recipe or plan entry that does not exist
\* return false, raise nothing and leave the store as it was: no
\* ingredient line and no tag is written.
C18_MissingTargetIsNoOp ==
    MissingTarget => (call.error = "" /\ call.result = FALSE /\ db = call.before)

\* replace_dish_details was given a line and a tag for a recipe that is not
\* there, in a store that holds another recipe
C18_Witness ==
    /\ MissingTarget
    /\ call.op = "replace_dish_details"
    /\ call.arg[1] # <<>>
    /\ ~IsNone(call.arg[2]) /\ Val(call.arg[2]) # <<>>
    /\ DOMAIN db.dishes # {}

(***************************************************************************)
(* Claims on reminders whose row is gone, and on job names (SpecFire,      *)
(* SpecRetry).                                                             *)
(***************************************************************************)
\* the callback of job i takes a step after its trigger fired when the
\* row of its reminder was already deleted
OrphanStep(i) ==
    /\ i \in DOMAIN job_queue'
    /\ job_queue[i].name \in history.orphans
    /\ job_queue[i].pc \in {"sent", "removed"}
    /\ job_queue'[i].pc # job_queue[i].pc

\* C11: when a trigger fires for a reminder whose row has already been
\* deleted (by remove_reminder, by remove_reminder_by_job, or by the cascade
\* from its plan entry or its recipe), send_reminder_job completes without
\* raising and leaves the reminders table as it was.
C11_OrphanFireIsNoOp ==
    [][\A i \in DOMAIN job_queue :
          OrphanStep(i) => (/\ job_queue'[i].pc # "raised"
                            /\ db'.reminders = db.reminders)]_vars

\* C12: in every reachable state no two reminder rows share a job name,
\* also after a reminder-time step that is repeated because the handler
\* failed after it had persisted the row.
C12_JobNamesUnique ==
    \A a \in DOMAIN db.reminders, b \in DOMAIN db.reminders :
        a # b => db.reminders[a].job_name # db.reminders[b].job_name

(***************************************************************************)
(* Who and what a list depends on.                                         *)
(***************************************************************************)
\* the plan entry is not one of user_id between start_date and end_date
OutsideView(plan, user_id, start_date, end_date) ==
    \/ plan.user_id # user_id
    \/ plan.plan_date < start_date
    \/ plan.plan_date > end_date

\* stores d1 and d2 hold the same recipes and differ only in plan entries
\* that are outside the view (before the change and after it)
OnlyOutsideChanged(d1, d2, user_id, start_date, end_date) ==
    /\ d1.dishes = d2.dishes
    /\ d1.dish_ingredients = d2.dish_ingredients
    /\ \A p \in (DOMAIN d1.meal_plans) \cup (DOMAIN d2.meal_plans) :
          \/ /\ p \in DOMAIN d1.meal_plans
             /\ p \in DOMAIN d2.meal_plans
             /\ d1.meal_plans[p] = d2.meal_plans[p]
          \/ /\ p \in DOMAIN d1.meal_plans =>
                    OutsideView(d1.meal_plans[p], user_id, start_date, end_date)
             /\ p \in DOMAIN d2.meal_plans =>
                    OutsideView(d2.meal_plans[p], user_id, start_date, end_date)

\* C21: get_shopping_list and get_meal_plans_in_range of (user, start, end)
\* return the same after a store operation that added, changed or deleted
\* only plan entries of another user or of a day outside start..end.
C21_ViewsOwnEntriesInRange ==
    \A user_id \in Users, range \in MenuRanges :
        OnlyOutsideChanged(call.before, db, user_id, range[1], range[2]) =>
            /\ get_shopping_list(db, user_id, range[1], range[2])
                 = get_shopping_list(call.before, user_id, range[1], range[2])
            /\ get_meal_plans_in_range(db, user_id, range[1], range[2])
                 = get_meal_plans_in_range(call.before, user_id, range[1], range[2])

\* u2 plans a meal on day 2 while u1 has an entry on day 2 whose list is not
\* empty; and an entry of u1 on day 3 is deleted, outside the range 2..2
C21_Witness ==
    /\ call.result
    /\ call.before # db
    /\ get_shopping_list(db, "u1", 2, 2).items # <<>>
    /\ get_meal_plans_in_range(db, "u1", 2, 2) # <<>>
    /\ OnlyOutsideChanged(call.before, db, "u1", 2, 2)
    /\ \/ call.op = "create_meal_plan" /\ call.arg.user_id = "u2"
                                       /\ call.arg.plan_date = 2
       \/ call.op = "delete_meal_plan" /\ call.arg = "u1"

(***************************************************************************)
(* Scaling a recipe whose serving count is not positive.                   *)
(***************************************************************************)
\* every quantity and macro of the lines is the one of the list given
SameValues(lines) ==
    /\ Len(lines) = Len(scale_orig)
    /\ \A i \in 1..Len(scale_orig) : \A key \in NUMERIC_KEYS :
          /\ IsNone(lines[i][key]) <=> IsNone(scale_orig[i][key])
          /\ ~IsNone(scale_orig[i][key]) => Val(lines[i][key]) = Val(scale_orig[i][key])

\* C22: with a base serving count B <= 0 every scaled quantity and macro is
\* the unscaled one, whatever N: in the list scale_ingredients returns, and
\* in the lines and macro totals format_scaled_ingredients shows.
C22_NonPositiveBaseKeepsValues ==
    RLeqZero(scale_in.base_servings) =>
        /\ scale_pc = "scaled" => SameValues(scale_out)
        /\ scale_pc = "formatted" =>
              /\ SameValues(scale_out.scaled)
              /\ scale_out.macros = compute_macros(scale_orig, 1)

(***************************************************************************)
(* The list of a recipe whose serving count is zero or null.               *)
(***************************************************************************)
ZeroOrNull(x) == IsNone(x) \/ RIsZero(Val(x))

\* the sum of column key over the (plan entry, ingredient line) pairs, each
\* line counted as it is stored (a null as 0)
RECURSIVE UnscaledSum(_, _)
UnscaledSum(pairs, key) ==
    IF pairs = {} THEN RZero
    ELSE LET pr == CHOOSE x \in pairs : TRUE
         IN  RAdd(OrElse(db.dish_ingredients[pr[2]][key], RZero),
                  UnscaledSum(pairs \ {pr}, key))

\* C23: an item of get_shopping_list whose rows all come from recipes with a
\* zero or null base serving count holds the unscaled sums of their
\* quantities and macros (ratio 1.0), whatever the planned serving counts;
\* and no row is divided by zero.
C23_ZeroBaseCountsUnscaled ==
    \A user_id \in Users, range \in MenuRanges :
        LET result == get_shopping_list(db, user_id, range[1], range[2])
            rows == ShoppingRows(db, user_id, range[1], range[2])
        IN  /\ \A i \in 1..Len(rows) : ~RIsZero(OrElse(rows[i].base_servings, ROne))
            /\ \A k \in 1..Len(result.items) :
                  LET item == result.items[k]
                  IN  (\A pr \in item.from_rows :
                          ZeroOrNull(db.dishes[db.meal_plans[pr[1]].dish_id].servings))
                      => \A key \in NUMERIC_KEYS :
                            item[key] = UnscaledSum(item.from_rows, key)

(***************************************************************************)
(* The serving count of a stored recipe.                                   *)
(***************************************************************************)
\* C24: every stored recipe has a base serving count greater than 0, in
\* every state the dialogs (add dish, edit, import) and the store
\* operations they call lead to.
C24_BaseServingsPositive ==
    \A id \in DOMAIN db.dishes :
        /\ ~IsNone(db.dishes[id].servings)
        /\ RPositive(Val(db.dishes[id].servings))

\* C25: no recipe has two ingredient lines with the same name and the same
\* unit, two null units counting as the same unit.
C25_LinesUniqueByNameAndUnit ==
    \A a, b \in DOMAIN db.dish_ingredients :
        (/\ a # b
         /\ db.dish_ingredients[a].dish_id = db.dish_ingredients[b].dish_id
         /\ db.dish_ingredients[a].name = db.dish_ingredients[b].name)
            => db.dish_ingredients[a].unit # db.dish_ingredients[b].unit

\* the tags of a recipe, and the rows that hold them
TagRowsOf(d, dish_id) == {id \in DOMAIN d.dish_tags : d.dish_tags[id].dish_id = dish_id}
TagSetOf(d, dish_id) == {d.dish_tags[id].tag : id \in TagRowsOf(d, dish_id)}

\* every tag of the store d is non-empty, trimmed and lowercase, and no
\* recipe has a tag twice
TagsNormalised(d) ==
    /\ \A id \in DOMAIN d.dish_tags :
          LET tag == d.dish_tags[id].tag
          IN  tag # <<>> /\ strip(tag) = tag /\ lower(tag) = tag
    /\ \A a, b \in DOMAIN d.dish_tags :
          (a # b /\ d.dish_tags[a].dish_id = d.dish_tags[b].dish_id)
              => d.dish_tags[a].tag # d.dish_tags[b].tag

\* tag lists a caller may pass: untrimmed, mixed case, blank and repeated
C26_TagLists ==
    { <<>>,
      << <<"Sugar", " ">>, <<" ", "sugar">> >>,
      << <<"Pie">>, <<" ">>, <<" ", "Sugar">> >> }

\* C26: every stored tag is a non-empty, trimmed, lowercase string and no
\* recipe has the same tag twice; set_dish_tags on a stored recipe leaves
\* the recipe with exactly the cleaned, non-empty tags of its input, and
\* the tags of the other recipes as they were.
C26_TagsNormalisedAndReplaced ==
    /\ TagsNormalised(db)
    /\ \A dish_id \in DOMAIN db.dishes, tags \in C26_TagLists :
          LET r == set_dish_tags(db, dish_id, tags)
          IN  /\ r.result
              /\ TagsNormalised(r.db)
              /\ TagSetOf(r.db, dish_id) =
                    {lower(strip(tags[i])) : i \in 1..Len(tags)} \ {<<>>}
              /\ \A other \in DOMAIN db.dishes \ {dish_id} :
                    TagSetOf(r.db, other) = TagSetOf(db, other)

\* the edit dialog has set the tags of a recipe that had none from the
\* message "Sugar , ,sugar": the recipe has the one tag sugar
C26_Witness ==
    /\ \E id \in DOMAIN db.user_actions :
          /\ db.user_actions[id].action = "dish_updated"
          /\ db.user_actions[id].payload = Some([field |-> "tags"])
    /\ \E dish_id \in DOMAIN db.dishes :
          /\ TagSetOf(db, dish_id) = {<<"sugar">>}
          /\ Cardinality(TagRowsOf(db, dish_id)) = 1

\* C27: the action log is append-only.  In every step each row of the log
\* stays, with its user, action kind and payload as they were; its recipe
\* reference either stays or becomes null, and becomes null only in a step
\* that deletes the recipe it named.
C27_LogAppendOnly ==
    [][\A id \in DOMAIN db.user_actions :
          /\ id \in DOMAIN db'.user_actions
          /\ db'.user_actions[id].user_id = db.user_actions[id].user_id
          /\ db'.user_actions[id].action = db.user_actions[id].action
          /\ db'.user_actions[id].payload = db.user_actions[id].payload
          /\ \/ db'.user_actions[id].dish_id = db.user_actions[id].dish_id
             \/ /\ IsNone(db'.user_actions[id].dish_id)
                /\ Val(db.user_actions[id].dish_id) \in DOMAIN db.dishes
                /\ Val(db.user_actions[id].dish_id) \notin DOMAIN db'.dishes]_vars

\* a row written by the edit dialog with the recipe's id is in the log with
\* a null reference: the recipe was deleted after it was written
C27_Witness ==
    \E id \in DOMAIN db.user_actions :
        /\ db.user_actions[id].action = "dish_updated"
        /\ IsNone(db.user_actions[id].dish_id)

\* the store d as it would be had the recipe never had ingredient lines,
\* and had it had seven base servings
WithoutLinesOf(d, dish_id) ==
    [d EXCEPT !.dish_ingredients =
        Without(d.dish_ingredients, IngredientsOf(d, dish_id))]
WithOtherServings(d, dish_id) ==
    [d EXCEPT !.dishes[dish_id].servings = Some(Int2Rat(7))]

\* the shopping list of every user and range is the same in two stores
SameShoppingLists(d1, d2) ==
    \A user_id \in Users, range \in MenuRanges :
        get_shopping_list(d1, user_id, range[1], range[2]) =
            get_shopping_list(d2, user_id, range[1], range[2])

\* C28: after replace_dish_details or update_dish has changed a recipe, no
\* plan entry is changed, every shopping list reports the recipe's stored
\* base servings and only lines the recipe has now, and the list is the
\* one the same call gives on a store where the recipe had other lines, or
\* another base serving count, before: nothing of the old lines or the old
\* base servings is in it.
C28_ShoppingListFollowsRecipe ==
    (call.op \in {"replace_dish_details", "update_dish"} /\ call.result) =>
        /\ db.meal_plans = call.before.meal_plans
        /\ \A user_id \in Users, range \in MenuRanges :
              LET list == get_shopping_list(db, user_id, range[1], range[2])
              IN  /\ \A k \in 1..Len(list.plans) :
                        list.plans[k].base_servings =
                            db.dishes[list.plans[k].dish_id].servings
                  /\ \A k \in 1..Len(list.items) :
                        \A row \in list.items[k].from_rows :
                            /\ row[2] \in DOMAIN db.dish_ingredients
                            /\ db.dish_ingredients[row[2]].dish_id =
                                   db.meal_plans[row[1]].dish_id
        /\ call.op = "replace_dish_details" =>
              SameShoppingLists(db,
                  replace_dish_details(WithoutLinesOf(call.before, call.id),
                                       call.id, call.arg, None).db)
        /\ call.op = "update_dish" =>
              SameShoppingLists(db,
                  update_dish(WithOtherServings(call.before, call.id),
                              call.id, [servings |-> call.arg]).db)

\* the recipe of a plan entry of u1 on day 2 had the line carrot and has
\* been given the line salt: the list of that day holds salt only
C28_Witness ==
    /\ call.op = "replace_dish_details" /\ call.result
    /\ call.arg # <<>>
    /\ get_shopping_list(call.before, "u1", 2, 2).items # <<>>
    /\ \A k \in 1..Len(get_shopping_list(call.before, "u1", 2, 2).items) :
          get_shopping_list(call.before, "u1", 2, 2).items[k].name = <<"carrot">>
    /\ Len(get_shopping_list(db, "u1", 2, 2).items) = 1
    /\ get_shopping_list(db, "u1", 2, 2).items[1].name = <<"salt">>

\* C29: whenever no dialog is in progress (every dialog begun has ended, by
\* completion or by /cancel), the session context holds no scratch data of
\* any dialog.
C29_ScratchClearedAtEnd ==
    dialog.state = "END" => dialog.user_data = NoUserData

\* C30: every plan entry the plan dialog has written has a meal slot of
\* MEAL_TYPES and a planned serving count greater than 0.
C30_PlanEntriesWellFormed ==
    \A id \in DOMAIN db.meal_plans :
        /\ \E k \in 1..Len(MEAL_TYPES) : db.meal_plans[id].meal_type = MEAL_TYPES[k]
        /\ ~IsNone(db.meal_plans[id].servings)
        /\ RPositive(Val(db.meal_plans[id].servings))

ReminderOfJob(i) ==
    IF ~IsNone(job_queue[i].data.reminder_id)
    THEN Val(job_queue[i].data.reminder_id)
    ELSE IF task.pc = "set_id" /\ task.job = i THEN task.reminder_id
    ELSE 0

\* C32: among the jobs of the running process, fired or not, no two were
\* armed for the same reminder row, and (counted in the first lifetime,
\* where the chat holds the notifications of this lifetime only) every
\* notification in the chat was sent by a job of its own.
C32_OneTriggerPerReminder ==
    /\ \A i, j \in DOMAIN job_queue :
          (i # j /\ ReminderOfJob(i) # 0) => ReminderOfJob(i) # ReminderOfJob(j)
    /\ history.crashes = 0 =>
          \A n \in DOMAIN chat :
              chat[n] <= Cardinality({i \in DOMAIN job_queue :
                                         /\ Notification(job_queue[i]) = n
                                         /\ job_queue[i].pc \in {"sent", "removed",
                                                                 "done", "raised"}})

\* in one lifetime a job armed by the recovery pass and a job armed by a
\* creation have both sent their notifications, each for its own row
C32_Witness ==
    /\ up
    /\ \E i, j \in DOMAIN job_queue :
          /\ job_queue[i].armed_by = "recovery"
          /\ job_queue[j].armed_by = "creation"
          /\ job_queue[i].pc \in {"sent", "removed", "done"}
          /\ job_queue[j].pc \in {"sent", "removed", "done"}
          /\ ReminderOfJob(i) # 0 /\ ReminderOfJob(j) # 0

\* C33: every ingredient line, tag and plan entry names a recipe of the
\* store; every reminder that names a plan entry names one of the store;
\* every reminder and every row of the action log that names a recipe
\* names one of the store.
C33_ReferentialIntegrity ==
    /\ \A id \in DOMAIN db.dish_ingredients :
          db.dish_ingredients[id].dish_id \in DOMAIN db.dishes
    /\ \A id \in DOMAIN db.dish_tags : db.dish_tags[id].dish_id \in DOMAIN db.dishes
    /\ \A id \in DOMAIN db.meal_plans : db.meal_plans[id].dish_id \in DOMAIN db.dishes
    /\ \A id \in DOMAIN db.reminders :
          /\ ~IsNone(db.reminders[id].plan_id)
                => Val(db.reminders[id].plan_id) \in DOMAIN db.meal_plans
          /\ ~IsNone(db.reminders[id].dish_id)
                => Val(db.reminders[id].dish_id) \in DOMAIN db.dishes
    /\ \A id \in DOMAIN db.user_actions :
          ~IsNone(db.user_actions[id].dish_id)
              => Val(db.user_actions[id].dish_id) \in DOMAIN db.dishes

\* a session has asked for a plan entry of a recipe another session had
\* deleted, and was refused; the log rows of that recipe name no recipe
\* now, and another recipe is in the store
C33_Witness ==
    /\ call.op = "create_meal_plan" /\ call.error = "IntegrityError"
    /\ call.id \in 1..db.seq["dishes"]
    /\ call.id \notin DOMAIN db.dishes
    /\ db.dishes # NoRows
    /\ \E id \in DOMAIN db.user_actions : IsNone(db.user_actions[id].dish_id)

\* C34: the step of the delete dialog that deletes the recipe also appends
\* a "dish_deleted" row of the acting user to the action log and ends the
\* dialog.
C34_ConfirmedDeleteLoggedAndEnded ==
    [][(dialog.state = "DELETE_CONFIRM" /\ DOMAIN db'.dishes # DOMAIN db.dishes)
          => /\ dialog'.state = "END"
             /\ \E id \in DOMAIN db'.user_actions \ DOMAIN db.user_actions :
                   /\ db'.user_actions[id].action = "dish_deleted"
                   /\ db'.user_actions[id].user_id = DialogUser]_vars

\* C35: when replace_dish_details has raised, the store is the one the
\* call started from: the recipe's row, its ingredient lines and its tags,
\* and everything else.
C35_ReplaceAllOrNothing ==
    (call.op = "replace_dish_details" /\ call.error # "") => db = call.before

\* replace_dish_details was given carrot in pieces twice for a recipe that
\* has lines and tags, and the second INSERT was refused
C35_Witness ==
    /\ call.op = "replace_dish_details" /\ call.error = "IntegrityError"
    /\ call.id \in DOMAIN db.dishes
    /\ IngredientsOf(db, call.id) # {}
    /\ \E id \in DOMAIN db.dish_tags : db.dish_tags[id].dish_id = call.id

\* C36: when an INSERT of add_dish was refused after the SELECT found the
\* name free, no row of that call is in the store: the store is the one the
\* call started from.
C36_AddDishAllOrNothing ==
    (call.op = "add_dish" /\ call.error = "IntegrityError") => db = call.before

\* add_dish was given a new name and carrot in pieces twice, and the INSERT
\* of the second line was refused
C36_Witness ==
    /\ call.op = "add_dish" /\ call.error = "IntegrityError"
    /\ ~NameFound(db, <<"Pie">>)

\* the ingredient lines stored for a recipe, without their row ids
StoredLines(d, dish_id) ==
    {d.dish_ingredients[i] : i \in IngredientsOf(d, dish_id)}

\* C37: the last step of an add-details dialog whose ingredient step was
\* skipped leaves the recipe's stored lines as they were immediately before
\* that step.
C37_SkippedLinesUntouched ==
    [][(/\ dialog.state = "DETAILS_TAGS" /\ dialog'.state = "END"
        /\ ~IsNone(dialog.user_data.details)
        /\ ~IsNone(Val(dialog.user_data.details).dish)
        /\ IsNone(Val(dialog.user_data.details).ingredients))
          => LET dish_id == Val(Val(dialog.user_data.details).dish).id
             IN  StoredLines(db', dish_id) = StoredLines(db, dish_id)]_vars

\* C38: delete_meal_plan called with the id of another user's plan entry
\* returns false and leaves the entry and its reminders, and the rest of
\* the store, as they were.
C38_OnlyOwnerDeletes ==
    (/\ call.op = "delete_meal_plan"
     /\ call.id \in DOMAIN call.before.meal_plans
     /\ call.before.meal_plans[call.id].user_id # call.arg)
        => /\ ~call.result
           /\ call.id \in DOMAIN db.meal_plans
           /\ db = call.before

\* u2 (or u1) asked to delete the other user's entry, which has a reminder
C38_Witness ==
    /\ call.op = "delete_meal_plan"
    /\ call.id \in DOMAIN db.meal_plans
    /\ db.meal_plans[call.id].user_id # call.arg
    /\ \E id \in DOMAIN db.reminders : db.reminders[id].plan_id = Some(call.id)

\* C39: every recipe saved by the last step of the add-dish dialog has a
\* non-empty name, a serving count greater than 0 and at least one
\* ingredient line, each line with a non-empty name.
C39_SavedRecipeWellFormed ==
    [][(dialog.state = "ADD_TAGS")
          => \A dish_id \in DOMAIN db'.dishes \ DOMAIN db.dishes :
                /\ db'.dishes[dish_id].name # <<>>
                /\ ~IsNone(db'.dishes[dish_id].servings)
                /\ RPositive(Val(db'.dishes[dish_id].servings))
                /\ IngredientsOf(db', dish_id) # {}
                /\ \A i \in IngredientsOf(db', dish_id) :
                      db'.dish_ingredients[i].name # <<>>]_vars

=============================================================================
